---- MODULE Spec2Model ----
(***************************************************************************)
(* Model of the finance tool's transaction pipeline: the statement parsers *)
(* (src/src/parsers.py), the transaction store (src/src/storage.py), the   *)
(* categorizer (src/src/categorizer.py) and the import command             *)
(* (src/finance_tool.py).                                                  *)
(*                                                                         *)
(* Conventions                                                             *)
(*  - A Python str that the code inspects (description, override pattern,  *)
(*    keyword, cell text, file name, card number) is the sequence of its   *)
(*    Unicode code points.                                                 *)
(*  - A str that the code only compares for equality (category key,        *)
(*    source, currency) is a TLA+ string.  OTHER_KEY is the reserved key   *)
(*    the source writes as the Hebrew word for "other".                    *)
(*  - An amount is an integer number of half-agorot (0.005 currency        *)
(*    units), so 0.01 is 2 units and 500.00 is 100000 units; arithmetic on *)
(*    amounts is exact (IEEE rounding of float sums is not modelled).      *)
(*  - A datetime is <<year, month, day, hour>>; None is NoneDate.          *)
(*  - A file path is the sequence of its "/"-separated components, each a  *)
(*    sequence of code points; a base name is one component.               *)
(***************************************************************************)
EXTENDS Integers, Sequences, FiniteSets, TLC

VARIABLES
    transactions,          \* Storage._transactions (list of dicts)
    processed_files,       \* Storage._processed_files (list of base names)
    transactions_file,     \* contents of data/transactions.json
    processed_files_file,  \* contents of data/processed_files.json
    overrides,             \* Categorizer.overrides (insertion-ordered dict)
    overrides_file,        \* contents of config/overrides.json
    ret,                   \* the last call: its name, arguments and result
    cmd                    \* the running command: its arguments and position

vars == <<transactions, processed_files, transactions_file,
          processed_files_file, overrides, overrides_file, ret, cmd>>

storeVars == <<transactions, processed_files, transactions_file,
               processed_files_file>>

catVars == <<overrides, overrides_file>>

(***************************************************************************)
(* Bounds of the model.                                                    *)
(***************************************************************************)
MaxStore == 3      \* stored transactions
MaxBatch == 2      \* transactions in one add_transactions call
MaxOverrides == 2  \* entries of the override dict
MaxRows == 4       \* rows of a statement sheet
MaxFiles == 2      \* files of one import command

(***************************************************************************)
(* Python values.                                                          *)
(***************************************************************************)
None == "None"
NoneDate == <<>>
NonePath == <<>>
OTHER_KEY == "other"

\* No command is running.
Idle ==
    [name |-> "idle", files |-> <<>>, force |-> FALSE, pos |-> 0,
     total_added |-> 0, total_files |-> 0]

\* str.lower() on one code point: A-Z map to a-z; Hebrew letters, digits,
\* blanks and a-z have no lower-case mapping.
LowerChar(c) == IF c \in 65..90 THEN c + 32 ELSE c

lower(s) == [i \in DOMAIN s |-> LowerChar(s[i])]

\* Python `needle in hay` for two str.
Contains(needle, hay) ==
    \E i \in 0..(Len(hay) - Len(needle)) :
        SubSeq(hay, i + 1, i + Len(needle)) = needle

IsSpace(c) == c \in {32, 9, 10, 11, 12, 13}

\* str.strip(): drop leading and trailing whitespace.
strip(s) ==
    LET keep == {i \in DOMAIN s : ~IsSpace(s[i])}
    IN  IF keep = {} THEN <<>>
        ELSE LET lo == CHOOSE i \in keep : \A j \in keep : i <= j
                 hi == CHOOSE i \in keep : \A j \in keep : j <= i
             IN  SubSeq(s, lo, hi)

\* abs() on an amount.
Abs(x) == IF x < 0 THEN -x ELSE x

\* datetime comparison d1 < d2.
DateLess(d1, d2) ==
    \/ d1[1] < d2[1]
    \/ d1[1] = d2[1] /\ d1[2] < d2[2]
    \/ d1[1] = d2[1] /\ d1[2] = d2[2] /\ d1[3] < d2[3]
    \/ d1[1] = d2[1] /\ d1[2] = d2[2] /\ d1[3] = d2[3] /\ d1[4] < d2[4]

\* datetime.isoformat(): the fixed-width text YYYY-MM-DDTHH:00:00, kept as
\* the number its digits YYYYMMDDHH spell.
isoformat(d) == d[1] * 1000000 + d[2] * 10000 + d[3] * 100 + d[4]

\* datetime.fromisoformat().
fromisoformat(s) ==
    <<s \div 1000000, (s \div 10000) % 100, (s \div 100) % 100, s % 100>>

\* sum() of a list of integers.
RECURSIVE SumSeq(_)
SumSeq(s) == IF s = <<>> THEN 0 ELSE Head(s) + SumSeq(Tail(s))

Range(s) == {s[i] : i \in DOMAIN s}

(***************************************************************************)
(* Transactions (src/src/parsers.py, class Transaction).                   *)
(***************************************************************************)
\* Transaction.to_dict(): asdict() with the date replaced by its ISO text
\* (every Transaction a parser builds has a date).
to_dict(t) ==
    [date |-> isoformat(t.date),
     description |-> t.description, amount |-> t.amount,
     currency |-> t.currency, source |-> t.source,
     source_file |-> t.source_file, card_number |-> t.card_number,
     category |-> t.category]

\* Transaction.from_dict(): the date parsed back from its ISO text.
from_dict(d) ==
    [date |-> fromisoformat(d.date),
     description |-> d.description, amount |-> d.amount,
     currency |-> d.currency, source |-> d.source,
     source_file |-> d.source_file, card_number |-> d.card_number,
     category |-> d.category]

(***************************************************************************)
(* Inputs: the texts, dates and transactions the operations are called     *)
(* with.                                                                   *)
(***************************************************************************)
\* "ISRACARD SETTLEMENT"
ISRACARD_SETTLEMENT ==
    <<73, 83, 82, 65, 67, 65, 82, 68, 32, 83, 69, 84, 84, 76, 69, 77, 69,
      78, 84>>
\* "SUPERMARKET"
SUPERMARKET == <<83, 85, 80, 69, 82, 77, 65, 82, 75, 69, 84>>
\* "MasterCard"
MASTERCARD == <<77, 97, 115, 116, 101, 114, 67, 97, 114, 100>>
\* "Salary"
SALARY == <<83, 97, 108, 97, 114, 121>>

D_DEC31 == <<2025, 12, 31, 0>>
D_JAN1 == <<2026, 1, 1, 0>>
D_MAR5 == <<2026, 3, 5, 0>>
D_MAR31 == <<2026, 3, 31, 0>>
D_APR1 == <<2026, 4, 1, 0>>
D_APR1_10H == <<2026, 4, 1, 10>>

\* "stmts", "bank.xlsx", "card_1234.xlsx"
STMTS == <<115, 116, 109, 116, 115>>
BANK_XLSX == <<98, 97, 110, 107, 46, 120, 108, 115, 120>>
CARD_1234_XLSX ==
    <<99, 97, 114, 100, 95,
      49, 50, 51, 52, 46, 120, 108, 115, 120>>

\* "stmts/bank.xlsx" and "stmts/card_1234.xlsx"
BANK_FILE == <<STMTS, BANK_XLSX>>
CARD_FILE == <<STMTS, CARD_1234_XLSX>>

\* A Transaction as a parser builds it: bank rows carry no card number.
Tx(date, description, amount, source, category) ==
    [date |-> date, description |-> description, amount |-> amount,
     currency |-> "ILS", source |-> source,
     source_file |-> IF source = "bank" THEN BANK_FILE ELSE CARD_FILE,
     card_number |-> IF source = "bank" THEN <<>> ELSE <<49, 50, 51, 52>>,
     category |-> category]

\* The transactions offered to the store.  Three of them share the date and
\* description of the supermarket charge and lie 0.005 apart in amount.
TxPool ==
    { Tx(D_MAR5, ISRACARD_SETTLEMENT, -100000, "bank", OTHER_KEY),
      Tx(D_MAR5, SUPERMARKET, -100000, "credit_card", "food"),
      Tx(D_MAR5, SUPERMARKET, -100001, "bank", None),
      Tx(D_MAR5, SUPERMARKET, -100002, "credit_card", OTHER_KEY),
      Tx(D_MAR5, MASTERCARD, -3000, "bank", "food"),
      Tx(D_MAR31, SUPERMARKET, 0, "credit_card", "food"),
      Tx(D_APR1, SALARY, 200000, "bank", "salary"),
      Tx(D_APR1_10H, SUPERMARKET, -50, "credit_card", None),
      Tx(D_DEC31, MASTERCARD, 40, "bank", None),
      Tx(D_DEC31, SUPERMARKET, -60, "credit_card", "food"),
      Tx(D_JAN1, SALARY, 70, "bank", "salary") }

\* The pool transactions that share a date and a description with another
\* one, and one that does not: the inputs of the duplicate test.
DedupPool ==
    { Tx(D_MAR5, SUPERMARKET, -100000, "credit_card", "food"),
      Tx(D_MAR5, SUPERMARKET, -100001, "bank", None),
      Tx(D_MAR5, SUPERMARKET, -100002, "credit_card", OTHER_KEY),
      Tx(D_MAR5, ISRACARD_SETTLEMENT, -100000, "bank", OTHER_KEY) }

\* The lists of at most n transactions of a pool.
Batches(pool, n) == UNION {[1..k -> pool] : k \in 0..n}

\* The (year, month) pairs a summary is asked for.
Months == {<<2025, 12>>, <<2026, 1>>, <<2026, 3>>, <<2026, 4>>}

\* The source_file arguments: None and a path.
SourceFiles == {NonePath, BANK_FILE}

(***************************************************************************)
(* Storage (src/src/storage.py).                                           *)
(***************************************************************************)
\* os.path.basename().
basename(file_path) ==
    IF file_path = <<>> THEN <<>> ELSE file_path[Len(file_path)]

\* 0.01, the amount tolerance of the duplicate test, in half-agorot.
DEDUP_TOLERANCE == 2

\* The duplicate test with the category taken into the identity.
IsDuplicate_sameCategory(existing, t_dict) ==
    /\ existing.date = t_dict.date
    /\ existing.description = t_dict.description
    /\ Abs(existing.amount - t_dict.amount) < DEDUP_TOLERANCE
    /\ existing.category = t_dict.category

\* The duplicate test with the amounts compared for equality.
IsDuplicate_exact(existing, t_dict) ==
    /\ existing.date = t_dict.date
    /\ existing.description = t_dict.description
    /\ existing.amount = t_dict.amount

\* The duplicate test of add_transactions.
IsDuplicate(existing, t_dict) ==
    /\ existing.date = t_dict.date
    /\ existing.description = t_dict.description
    /\ Abs(existing.amount - t_dict.amount) < DEDUP_TOLERANCE

\* The loop with the scan left after the first stored record (the break
\* one level out).
RECURSIVE AddLoop_firstOnly(_, _, _)
AddLoop_firstOnly(stored, batch, added_count) ==
    IF batch = <<>> THEN [stored |-> stored, added_count |-> added_count]
    ELSE LET t_dict == to_dict(Head(batch))
             is_duplicate ==
                 /\ stored # <<>>
                 /\ IsDuplicate(stored[1], t_dict)
         IN  IF is_duplicate
             THEN AddLoop_firstOnly(stored, Tail(batch), added_count)
             ELSE AddLoop_firstOnly(Append(stored, t_dict), Tail(batch),
                                    added_count + 1)

\* The loop of add_transactions: each transaction is compared with the
\* list as it stands, records appended earlier in the same call included.
RECURSIVE AddLoop(_, _, _)
AddLoop(stored, batch, added_count) ==
    IF batch = <<>> THEN [stored |-> stored, added_count |-> added_count]
    ELSE LET t_dict == to_dict(Head(batch))
             is_duplicate ==
                 \E i \in DOMAIN stored : IsDuplicate(stored[i], t_dict)
         IN  IF is_duplicate
             THEN AddLoop(stored, Tail(batch), added_count)
             ELSE AddLoop(Append(stored, t_dict), Tail(batch),
                          added_count + 1)

\* Storage.is_file_processed.
is_file_processed(file_path) ==
    \E i \in DOMAIN processed_files : processed_files[i] = basename(file_path)

\* mark_file_processed without the membership test.
MarkedFiles_noTest(files, file_path) == Append(files, basename(file_path))

\* The processed-file list after mark_file_processed(file_path).
MarkedFiles(files, file_path) ==
    IF \E i \in DOMAIN files : files[i] = basename(file_path)
    THEN files
    ELSE Append(files, basename(file_path))

\* list.sort(key=lambda x: x.date) is stable: t goes behind every element
\* of the sorted list whose date is not later than its own.
InsertByDate(sorted, t) ==
    LET k == Cardinality({i \in DOMAIN sorted :
                             ~DateLess(t.date, sorted[i].date)})
    IN  SubSeq(sorted, 1, k) \o <<t>> \o SubSeq(sorted, k + 1, Len(sorted))

RECURSIVE SortByDate(_)
SortByDate(s) ==
    IF s = <<>> THEN <<>>
    ELSE InsertByDate(SortByDate(SubSeq(s, 1, Len(s) - 1)), s[Len(s)])

\* get_transactions with an exclusive end bound.
get_transactions_endExclusive(stored, start_date, end_date, category, source) ==
    LET all == [i \in DOMAIN stored |-> from_dict(stored[i])]
        Pass(t) ==
            /\ ~(start_date # NoneDate /\ DateLess(t.date, start_date))
            /\ ~(end_date # NoneDate /\ ~DateLess(t.date, end_date))
            /\ ~(category \notin {None, ""} /\ t.category # category)
            /\ ~(source \notin {None, ""} /\ t.source # source)
    IN  SortByDate(SelectSeq(all, Pass))

\* Storage.get_transactions over the stored list `stored`; an omitted
\* filter is NoneDate or None.
get_transactions(stored, start_date, end_date, category, source) ==
    LET all == [i \in DOMAIN stored |-> from_dict(stored[i])]
        Pass(t) ==
            /\ ~(start_date # NoneDate /\ DateLess(t.date, start_date))
            /\ ~(end_date # NoneDate /\ DateLess(end_date, t.date))
            /\ ~(category \notin {None, ""} /\ t.category # category)
            /\ ~(source \notin {None, ""} /\ t.source # source)
    IN  SortByDate(SelectSeq(all, Pass))

\* The card-issuer names of _is_credit_card_transfer, in list order: six
\* Hebrew names, then "visa cal" and "mastercard".
cc_keywords ==
    << <<1497, 1513, 1512, 1488, 1499, 1512, 1496>>,
       <<1502, 1511, 1505, 32, 1488, 1497, 1496>>,
       <<1499, 1488, 1500>>,
       <<1500, 1488, 1493, 1502, 1497, 32, 1511, 1488, 1512, 1491>>,
       <<1488, 1502, 1512, 1497, 1511, 1503, 32, 1488, 1511, 1505, 1508,
         1512, 1505>>,
       <<1491, 1497, 1497, 1504, 1512, 1505>>,
       <<118, 105, 115, 97, 32, 99, 97, 108>>,
       <<109, 97, 115, 116, 101, 114, 99, 97, 114, 100>> >>

\* Storage._is_credit_card_transfer.
is_credit_card_transfer(transaction) ==
    IF transaction.source # "bank" THEN FALSE
    ELSE LET desc_lower == lower(transaction.description)
         IN  \E k \in DOMAIN cc_keywords :
                 \/ Contains(cc_keywords[k], desc_lower)
                 \/ Contains(lower(cc_keywords[k]), desc_lower)

\* `t.category or <other>`.
CategoryOf(t) == IF t.category \in {None, ""} THEN OTHER_KEY ELSE t.category

\* The last instant of the range get_monthly_summary asks for.
SummaryEnd(year, month) ==
    IF month = 12 THEN <<year + 1, 1, 1, 0>> ELSE <<year, month + 1, 1, 0>>

\* The branch of the partition loop that sends a transaction to `income`.
IsIncome(t) == t.amount > 0

\* The expense breakdown with the signed amounts summed.
ExpenseByCategory_signed(expenses) ==
    [c \in {CategoryOf(t) : t \in Range(expenses)} |->
        LET members == SelectSeq(expenses, LAMBDA t : CategoryOf(t) = c)
        IN  [total |-> SumSeq([i \in DOMAIN members |-> members[i].amount]),
             transactions |-> members]]

\* The expense breakdown: per category the sum of abs(amount) and members.
ExpenseByCategory(expenses) ==
    LET Amt(t) == Abs(t.amount)
    IN  [c \in {CategoryOf(t) : t \in Range(expenses)} |->
            LET members == SelectSeq(expenses, LAMBDA t : CategoryOf(t) = c)
            IN  [total |-> SumSeq([i \in DOMAIN members |-> Amt(members[i])]),
                 transactions |-> members]]

\* The income breakdown: per category the sum of amounts and members.
IncomeByCategory(income) ==
    [c \in {CategoryOf(t) : t \in Range(income)} |->
        LET members == SelectSeq(income, LAMBDA t : CategoryOf(t) = c)
        IN  [total |-> SumSeq([i \in DOMAIN members |-> members[i].amount]),
             transactions |-> members]]

\* The test that sends a selected transaction to excluded_transfers.
ShouldExclude_bankOnly(t, exclude_cc_transfers, has_bank, has_cc) ==
    exclude_cc_transfers /\ has_bank /\ is_credit_card_transfer(t)

ShouldExclude(t, exclude_cc_transfers, has_bank, has_cc) ==
    /\ exclude_cc_transfers
    /\ has_bank
    /\ has_cc
    /\ is_credit_card_transfer(t)

\* total_excluded: the sum of abs(amount) over the excluded transfers.
TotalExcluded_signed(excluded_transfers) ==
    SumSeq([i \in DOMAIN excluded_transfers |-> excluded_transfers[i].amount])

TotalExcluded(excluded_transfers) ==
    SumSeq([i \in DOMAIN excluded_transfers |->
               Abs(excluded_transfers[i].amount)])

\* Storage.get_monthly_summary over the stored list `stored`.
get_monthly_summary(stored, year, month, exclude_cc_transfers) ==
    LET start_date == <<year, month, 1, 0>>
        end_date == SummaryEnd(year, month)
        txs == get_transactions(stored, start_date, end_date, None, None)
        has_bank == \E i \in DOMAIN txs : txs[i].source = "bank"
        has_cc == \E i \in DOMAIN txs : txs[i].source = "credit_card"
        Excluded(t) == ShouldExclude(t, exclude_cc_transfers, has_bank, has_cc)
        excluded_transfers == SelectSeq(txs, Excluded)
        income == SelectSeq(txs, LAMBDA t : ~Excluded(t) /\ IsIncome(t))
        expenses == SelectSeq(txs, LAMBDA t : ~Excluded(t) /\ ~IsIncome(t))
        total_expenses ==
            SumSeq([i \in DOMAIN expenses |-> Abs(expenses[i].amount)])
        total_income ==
            SumSeq([i \in DOMAIN income |-> income[i].amount])
        total_excluded == TotalExcluded(excluded_transfers)
    IN  [year |-> year, month |-> month,
         total_expenses |-> total_expenses,
         total_income |-> total_income,
         balance |-> total_income - total_expenses,
         expense_by_category |-> ExpenseByCategory(expenses),
         income_by_category |-> IncomeByCategory(income),
         transaction_count |-> Len(txs),
         excluded_cc_transfers |-> excluded_transfers,
         total_excluded |-> total_excluded]

(***************************************************************************)
(* Categorizer (src/src/categorizer.py).                                   *)
(***************************************************************************)
\* "SUPER"
SUPER == <<83, 85, 80, 69, 82>>
\* " SUPERMARKET " (blanks around the name)
SUPERMARKET_PADDED == <<32>> \o SUPERMARKET \o <<32>>

\* Categorizer.categories as loaded from config/categories.json, in file
\* order: the key and the keyword list of each entry ("market", "Super";
\* "salary"; none for the reserved key).
categories ==
    << [key |-> "food",
        keywords |-> << <<109, 97, 114, 107, 101, 116>>,
                        <<83, 117, 112, 101, 114>> >>],
       [key |-> "salary",
        keywords |-> << <<115, 97, 108, 97, 114, 121>> >>],
       [key |-> OTHER_KEY, keywords |-> <<>>] >>

\* `cat_key in self.categories`.
InCategories(cat_key) ==
    \E c \in DOMAIN categories : categories[c].key = cat_key

\* The descriptions categorize is asked about, and the override patterns.
Descriptions ==
    {SUPERMARKET, SUPERMARKET_PADDED, SUPER, SALARY, ISRACARD_SETTLEMENT, <<>>}
Patterns == {SUPERMARKET, SUPER, SALARY}

\* The category_key arguments of add_override: catalog keys and one key
\* that is in no catalog.
CategoryKeys == {"food", "salary", OTHER_KEY, "bogus"}

\* The overrides a config/overrides.json may hold when the Categorizer is
\* constructed; _load_config takes them as they are.
LoadedOverrides ==
    { <<>>,
      <<[pattern |-> SUPERMARKET, category |-> "bogus"]>>,
      <<[pattern |-> SUPER, category |-> "salary"]>> }

\* The position of a pattern in the override dict, 0 when it is no key.
IndexOf(ovr, pattern) ==
    IF \E i \in DOMAIN ovr : ovr[i].pattern = pattern
    THEN CHOOSE i \in DOMAIN ovr : ovr[i].pattern = pattern
    ELSE 0

\* self.overrides[description] = category_key: a present key keeps its
\* place and takes the new value, a new key goes to the end.
SetOverride(ovr, description, category_key) ==
    LET i == IndexOf(ovr, description)
        entry == [pattern |-> description, category |-> category_key]
    IN  IF i = 0 THEN Append(ovr, entry) ELSE [ovr EXCEPT ![i] = entry]

\* The override dict add_override leaves, with the assignment made before
\* the category is validated.
OverridesAfterAdd_assignFirst(ovr, description, category_key) ==
    SetOverride(ovr, description, category_key)

\* The override dict add_override leaves: unchanged when category_key is
\* neither a catalog key nor the reserved key.
OverridesAfterAdd(ovr, description, category_key) ==
    IF ~InCategories(category_key) /\ category_key # OTHER_KEY
    THEN ovr
    ELSE SetOverride(ovr, description, category_key)

\* The exact-match step without the test of the category against the
\* catalog.
ExactOverride_anyCategory(ovr, description) ==
    LET i == IndexOf(ovr, strip(description))
    IN  IF i # 0 THEN ovr[i].category ELSE None

\* The exact-match step of categorize: the category of the override whose
\* pattern is the trimmed description, when that category is in the catalog.
ExactOverride(ovr, description) ==
    LET i == IndexOf(ovr, strip(description))
    IN  IF i # 0 /\ InCategories(ovr[i].category) THEN ovr[i].category
        ELSE None

\* The partial-match step with the override dict walked from its end.
PartialOverride_lastHit(ovr, description) ==
    LET description_lower == lower(description)
        Hit(i) ==
            /\ \/ Contains(lower(ovr[i].pattern), description_lower)
               \/ Contains(description_lower, lower(ovr[i].pattern))
            /\ InCategories(ovr[i].category)
        hits == {i \in DOMAIN ovr : Hit(i)}
    IN  IF hits = {} THEN None
        ELSE ovr[CHOOSE i \in hits : \A j \in hits : i >= j].category

\* The partial-match step: the first override, in dict order, whose pattern
\* contains or is contained in the description, case-insensitively, and
\* whose category is in the catalog.
PartialOverride(ovr, description) ==
    LET description_lower == lower(description)
        Hit(i) ==
            /\ \/ Contains(lower(ovr[i].pattern), description_lower)
               \/ Contains(description_lower, lower(ovr[i].pattern))
            /\ InCategories(ovr[i].category)
        hits == {i \in DOMAIN ovr : Hit(i)}
    IN  IF hits = {} THEN None
        ELSE ovr[CHOOSE i \in hits : \A j \in hits : i <= j].category

\* The keyword step: categories in catalog order, keywords in list order.
KeywordMatch(description) ==
    LET description_lower == lower(description)
        Hit(c) ==
            \E k \in DOMAIN categories[c].keywords :
                Contains(lower(categories[c].keywords[k]), description_lower)
        hits == {c \in DOMAIN categories : Hit(c)}
    IN  IF hits = {} THEN None
        ELSE categories[CHOOSE c \in hits : \A d \in hits : c <= d].key

\* categorize with the exact-match step left out.
categorize_noExact(ovr, description) ==
    IF PartialOverride(ovr, description) # None
    THEN PartialOverride(ovr, description)
    ELSE IF KeywordMatch(description) # None THEN KeywordMatch(description)
    ELSE OTHER_KEY

\* Categorizer.categorize: the category key it returns.
categorize(ovr, description) ==
    IF ExactOverride(ovr, description) # None
    THEN ExactOverride(ovr, description)
    ELSE IF PartialOverride(ovr, description) # None
    THEN PartialOverride(ovr, description)
    ELSE IF KeywordMatch(description) # None THEN KeywordMatch(description)
    ELSE OTHER_KEY

(***************************************************************************)
(* Spreadsheet cells and their conversions (src/src/parsers.py).           *)
(* A cell is a record: kind says whether pandas read it as NaN, a str, a   *)
(* float or a datetime; the field of that kind holds the value.  A float   *)
(* cell holds an amount in half-agorot.                                    *)
(***************************************************************************)
NaN == [kind |-> "nan", text |-> <<>>, num |-> 0, date |-> <<>>]
StrCell(text) == [kind |-> "str", text |-> text, num |-> 0, date |-> <<>>]
NumCell(num) == [kind |-> "num", text |-> <<>>, num |-> num, date |-> <<>>]
DateCell(date) == [kind |-> "date", text |-> <<>>, num |-> 0, date |-> date]

\* pd.isna(v)
isna(v) == v.kind = "nan"

IsDigit(c) == c \in 48..57

\* The decimal digits of a natural number.
RECURSIVE Digits(_)
Digits(n) ==
    IF n < 10 THEN <<48 + n>> ELSE Digits(n \div 10) \o <<48 + (n % 10)>>

\* The digits of n, zero-padded on the left to width w.
RECURSIVE Pad(_, _)
Pad(n, w) == IF w = 0 THEN <<>> ELSE Pad(n \div 10, w - 1) \o <<48 + (n % 10)>>

\* Drop trailing "0" digits, keeping one digit.
RECURSIVE TrimZeros(_)
TrimZeros(s) ==
    IF Len(s) > 1 /\ s[Len(s)] = 48 THEN TrimZeros(SubSeq(s, 1, Len(s) - 1))
    ELSE s

\* str() of a float holding num half-agorot: "120.5", "-50.0", "0.005".
FloatText(num) ==
    LET a == Abs(num)
    IN  (IF num < 0 THEN <<45>> ELSE <<>>)
            \o Digits(a \div 200) \o <<46>> \o TrimZeros(Pad((a % 200) * 5, 3))

\* str() of a datetime: "2026-03-05 00:00:00".
DateText(d) ==
    Pad(d[1], 4) \o <<45>> \o Pad(d[2], 2) \o <<45>> \o Pad(d[3], 2)
        \o <<32>> \o Pad(d[4], 2) \o <<58, 48, 48, 58, 48, 48>>

\* str(v) of a cell.
str(v) ==
    CASE v.kind = "str" -> v.text
      [] v.kind = "num" -> FloatText(v.num)
      [] v.kind = "date" -> DateText(v.date)
      [] v.kind = "nan" -> <<110, 97, 110>>

\* int() of a string of digits.
RECURSIVE ToInt(_)
ToInt(s) ==
    IF s = <<>> THEN 0
    ELSE ToInt(SubSeq(s, 1, Len(s) - 1)) * 10 + (s[Len(s)] - 48)

\* str.split(sep) for a one-character separator.
RECURSIVE Split(_, _)
Split(s, sep) ==
    LET at == {i \in DOMAIN s : s[i] = sep}
    IN  IF at = {} THEN <<s>>
        ELSE LET i == CHOOSE k \in at : \A j \in at : k <= j
             IN  <<SubSeq(s, 1, i - 1)>>
                     \o Split(SubSeq(s, i + 1, Len(s)), sep)

\* The days of a month of the Gregorian calendar.
DaysInMonth(y, m) ==
    IF m = 2
    THEN (IF (y % 4 = 0 /\ y % 100 # 0) \/ y % 400 = 0 THEN 29 ELSE 28)
    ELSE IF m \in {4, 6, 9, 11} THEN 30 ELSE 31

\* datetime.strptime(s, fmt) for a format of three numeric fields joined by
\* sep: day, month and year are at positions dpos, mpos, ypos, and the
\* year has ylen digits (%y: 2, with 00-68 in 2000 and 69-99 in 1900;
\* %Y: 4).  %d and %m take one or two digits.  NoneDate is the ValueError.
strptime(s, sep, dpos, mpos, ypos, ylen) ==
    LET parts == Split(s, sep)
    IN  IF \/ Len(parts) # 3
           \/ \E k \in 1..Len(parts) :
                  parts[k] = <<>> \/ \E i \in DOMAIN parts[k] :
                                        ~IsDigit(parts[k][i])
        THEN NoneDate
        ELSE LET dd == parts[dpos]
                 mm == parts[mpos]
                 yy == parts[ypos]
                 d == ToInt(dd)
                 m == ToInt(mm)
                 y == IF ylen = 4 THEN ToInt(yy)
                      ELSE IF ToInt(yy) < 69 THEN 2000 + ToInt(yy)
                      ELSE 1900 + ToInt(yy)
             IN  IF /\ Len(dd) \in {1, 2}
                    /\ Len(mm) \in {1, 2}
                    /\ Len(yy) = ylen
                    /\ y >= 1
                    /\ m \in 1..12
                    /\ d >= 1
                    /\ d <= DaysInMonth(y, m)
                 THEN <<y, m, d, 0>>
                 ELSE NoneDate

\* The formats of parse_date in list order: '%d.%m.%y', '%d.%m.%Y',
\* '%Y-%m-%d', '%d/%m/%y', '%d/%m/%Y'.
formats ==
    << [sep |-> 46, dpos |-> 1, mpos |-> 2, ypos |-> 3, ylen |-> 2],
       [sep |-> 46, dpos |-> 1, mpos |-> 2, ypos |-> 3, ylen |-> 4],
       [sep |-> 45, dpos |-> 3, mpos |-> 2, ypos |-> 1, ylen |-> 4],
       [sep |-> 47, dpos |-> 1, mpos |-> 2, ypos |-> 3, ylen |-> 2],
       [sep |-> 47, dpos |-> 1, mpos |-> 2, ypos |-> 3, ylen |-> 4] >>

\* The first format from position k on that parses date_str.
RECURSIVE TryFormats(_, _)
TryFormats(date_str, k) ==
    IF k > Len(formats) THEN NoneDate
    ELSE LET f == formats[k]
             d == strptime(date_str, f.sep, f.dpos, f.mpos, f.ypos, f.ylen)
         IN  IF d # NoneDate THEN d ELSE TryFormats(date_str, k + 1)

\* parse_date(date_val): None for NaN, a datetime as it is, a str by the
\* formats after strip(), None for anything else.
parse_date(date_val) ==
    CASE isna(date_val) -> NoneDate
      [] date_val.kind = "date" -> date_val.date
      [] date_val.kind = "str" -> TryFormats(strip(date_val.text), 1)
      [] date_val.kind = "num" -> NoneDate

\* An Optional[float]: none is TRUE for None.
NoneAmount == [none |-> TRUE, value |-> 0]
Amount(value) == [none |-> FALSE, value |-> value]

\* The characters re.sub(r'[₪$€,\s]', '', ...) removes.
IsAmountNoise(c) == c \in {8362, 36, 8364, 44} \/ IsSpace(c)

\* float(s) for plain decimal notation: an optional sign, digits, at most
\* one point, at least one digit; the value in half-agorot (digits beyond
\* the third decimal are below the resolution of the model).  Any other
\* text is the ValueError.
float(s) ==
    LET signed == s # <<>> /\ s[1] \in {43, 45}
        body == IF signed THEN SubSeq(s, 2, Len(s)) ELSE s
        parts == Split(body, 46)
        ip == parts[1]
        fp == IF Len(parts) = 2 THEN parts[2] ELSE <<>>
        fp3 == SubSeq(fp \o <<48, 48, 48>>, 1, 3)
    IN  IF \/ Len(parts) > 2
           \/ Len(ip) + Len(fp) = 0
           \/ \E i \in DOMAIN ip : ~IsDigit(ip[i])
           \/ \E i \in DOMAIN fp : ~IsDigit(fp[i])
        THEN NoneAmount
        ELSE LET a == ToInt(ip) * 200 + (ToInt(fp3) \div 5)
             IN  Amount(IF signed /\ s[1] = 45 THEN -a ELSE a)

\* parse_amount(amount_val): None for NaN, a number as it is, a str after
\* the currency symbols, commas and whitespace are removed, else None.
parse_amount(amount_val) ==
    CASE isna(amount_val) -> NoneAmount
      [] amount_val.kind = "num" -> Amount(amount_val.num)
      [] amount_val.kind = "str" ->
             float(SelectSeq(amount_val.text, LAMBDA c : ~IsAmountNoise(c)))
      [] amount_val.kind = "date" -> NoneAmount

(***************************************************************************)
(* The statement parsers (src/src/parsers.py).  A sheet is what            *)
(* pd.read_excel makes of a file: readable or not, and its rows, each a    *)
(* sequence of cells.  The Hebrew texts the parsers look for are named     *)
(* after their meaning.                                                    *)
(***************************************************************************)
HE_DATE == <<1514, 1488, 1512, 1497, 1498>>
HE_ACTION_DESCRIPTION ==
    <<1514, 1497, 1488, 1493, 1512, 32, 1508, 1506, 1493, 1500, 1492>>
HE_DESCRIPTION == <<1514, 1497, 1488, 1493, 1512>>
HE_ACCOUNT_MOVEMENTS ==
    <<1514, 1504, 1493, 1506, 1493, 1514, 32,
      1489, 1495, 1513, 1489, 1493, 1503>>
HE_BANK_YAHAV == <<1489, 1504, 1511, 32, 1497, 1492, 1489>>
HE_TRANSACTION_DETAILS ==
    <<1508, 1497, 1512, 1493, 1496, 32, 1506, 1505, 1511, 1488, 1493, 1514>>
HE_ISRACARD == <<1497, 1513, 1512, 1488, 1499, 1512, 1496>>
HE_MASTERCARD == <<1502, 1505, 1496, 1512, 1511, 1488, 1512, 1491>>
HE_CURRENT_ACCOUNT == <<1506, 1493>>
BANK_WORD == <<98, 97, 110, 107>>
HE_PURCHASE_DATE ==
    <<1514, 1488, 1512, 1497, 1498, 32, 1512, 1499, 1497, 1513, 1492>>
HE_BUSINESS_NAME == <<1513, 1501, 32, 1489, 1497, 1514, 32, 1506, 1505, 1511>>
HE_TOTAL == <<1505, 1492, 34, 1499>>
HE_NOT_YET_POSTED == <<1496, 1512, 1501, 32, 1504, 1511, 1500, 1496>>

\* None where the code expects a str that it inspects; a card number has
\* four digits, so the empty text is no card number.
NoneText == <<>>

\* row.iloc[k] if len(row) > k else None; pd.isna(None) is True.
Cell(row, k) == IF Len(row) > k THEN row[k + 1] ELSE NaN

\* ' '.join(texts)
RECURSIVE JoinSpace(_)
JoinSpace(texts) ==
    IF texts = <<>> THEN <<>>
    ELSE IF Len(texts) = 1 THEN texts[1]
    ELSE texts[1] \o <<32>> \o JoinSpace(Tail(texts))

\* df.values.flatten(): the cells of all rows in row order.
RECURSIVE Flatten(_)
Flatten(rows) ==
    IF rows = <<>> THEN <<>> ELSE Head(rows) \o Flatten(Tail(rows))

\* [str(v) for v in cells if not pd.isna(v)]
TextsOf(cells) ==
    LET present == SelectSeq(cells, LAMBDA v : ~isna(v))
    IN  [i \in DOMAIN present |-> str(present[i])]

\* A Transaction as a parser builds it: card_number as given, category None.
Transaction(date, description, amount, currency, source, source_file, card_number) ==
    [date |-> date, description |-> description, amount |-> amount,
     currency |-> currency, source |-> source, source_file |-> source_file,
     card_number |-> card_number, category |-> None]

\* The header test of parse_bank_statement: some cell text contains the
\* date marker and some cell text contains a description marker.
IsBankHeader(row) ==
    LET row_values == TextsOf(row)
    IN  /\ \E i \in DOMAIN row_values : Contains(HE_DATE, row_values[i])
        /\ \E i \in DOMAIN row_values :
               \/ Contains(HE_ACTION_DESCRIPTION, row_values[i])
               \/ Contains(HE_DESCRIPTION, row_values[i])

\* `x` alone for an Optional[float]: neither None nor 0.0.
IsPositive_nonZero(x) == ~x.none /\ x.value # 0

\* `x and x > 0` for an Optional[float].
IsPositive(x) == ~x.none /\ x.value # 0 /\ x.value > 0

\* The Transactions of one bank row after the header: none when the date
\* does not parse, else an expense for a debit and an income for a credit.
BankRow(row, file_path) ==
    LET date == parse_date(Cell(row, 0))
        description == IF isna(Cell(row, 3)) THEN <<>>
                       ELSE strip(str(Cell(row, 3)))
        debit_amount == parse_amount(Cell(row, 4))
        credit_amount == parse_amount(Cell(row, 5))
    IN  IF date = NoneDate THEN <<>>
        ELSE (IF IsPositive(debit_amount)
              THEN <<Transaction(date, description, -debit_amount.value,
                                 "ILS", "bank", file_path, NoneText)>>
              ELSE <<>>)
             \o (IF IsPositive(credit_amount)
                 THEN <<Transaction(date, description, credit_amount.value,
                                    "ILS", "bank", file_path, NoneText)>>
                 ELSE <<>>)

\* The Transactions of the rows k.. of a bank sheet.
RECURSIVE BankRows(_, _, _)
BankRows(df, k, file_path) ==
    IF k > Len(df) THEN <<>>
    ELSE BankRow(df[k], file_path) \o BankRows(df, k + 1, file_path)

\* A parser's outcome: a raised exception or a list of Transactions.
Raise(error) == [raised |-> TRUE, error |-> error, transactions |-> <<>>]
Return(txs) == [raised |-> FALSE, error |-> None, transactions |-> txs]

\* parse_bank_statement(file_path) on the sheet df: the header row is the
\* first row that passes the header test; ValueError when there is none.
parse_bank_statement(file_path, df) ==
    LET headers == {i \in DOMAIN df : IsBankHeader(df[i])}
    IN  IF headers = {} THEN Raise("no header row")
        ELSE LET header_row == CHOOSE i \in headers : \A j \in headers : i <= j
             IN  Return(BankRows(df, header_row + 1, file_path))

\* re.search(r'(\d{4})', file_name): the first run of four digits.
FirstFourDigits(file_name) ==
    LET at == {i \in 1..(Len(file_name) - 3) :
                  \A j \in i..(i + 3) : IsDigit(file_name[j])}
    IN  IF at = {} THEN NoneText
        ELSE LET i == CHOOSE k \in at : \A j \in at : k <= j
             IN  SubSeq(file_name, i, i + 3)

\* str.rstrip()
RECURSIVE rstrip(_)
rstrip(s) ==
    IF s # <<>> /\ IsSpace(s[Len(s)]) THEN rstrip(SubSeq(s, 1, Len(s) - 1))
    ELSE s

\* re.search(r'[-–]\s*(\d{4})\s*$', val): four digits at the end of the
\* text (blanks aside) that follow a hyphen or an en dash (blanks aside).
TrailingCardNumber(val) ==
    LET t == rstrip(val)
        before == rstrip(SubSeq(t, 1, Len(t) - 4))
    IN  IF /\ Len(t) >= 5
           /\ \A j \in (Len(t) - 3)..Len(t) : IsDigit(t[j])
           /\ before # <<>>
           /\ before[Len(before)] \in {45, 8211}
        THEN SubSeq(t, Len(t) - 3, Len(t))
        ELSE NoneText

\* The card number the inner loop finds in one row: the match of its first
\* str cell that has one.
RowCardNumber(row) ==
    LET hits == {i \in DOMAIN row :
                    /\ row[i].kind = "str"
                    /\ TrailingCardNumber(row[i].text) # NoneText}
    IN  IF hits = {} THEN NoneText
        ELSE TrailingCardNumber(
                 row[CHOOSE i \in hits : \A j \in hits : i <= j].text)

\* The scan of all rows: every row with a match assigns card_number.
RECURSIVE ScanCardNumber(_, _, _)
ScanCardNumber(df, k, card_number) ==
    IF k > Len(df) THEN card_number
    ELSE ScanCardNumber(df, k + 1,
                        IF RowCardNumber(df[k]) # NoneText
                        THEN RowCardNumber(df[k]) ELSE card_number)

\* card_number of parse_credit_card_statement: the file name's first four
\* digits, replaced by what the scan of the rows finds.
CardNumber(file_path, df) ==
    ScanCardNumber(df, 1, FirstFourDigits(basename(file_path)))

\* ' '.join of the row's cell texts, '' for NaN.
RowText(row) ==
    JoinSpace([i \in DOMAIN row |-> IF isna(row[i]) THEN <<>>
                                    ELSE str(row[i])])

IsSectionHeader(row) ==
    /\ Contains(HE_PURCHASE_DATE, RowText(row))
    /\ Contains(HE_BUSINESS_NAME, RowText(row))

\* currency_str of a row: USD for '$', EUR for '€', else ILS.
currency_str(currency) ==
    IF isna(currency) THEN "ILS"
    ELSE IF Contains(<<36>>, strip(str(currency))) THEN "USD"
    ELSE IF Contains(<<8364>>, strip(str(currency))) THEN "EUR"
    ELSE "ILS"

\* The section end without the whitespace test.
EndsSection_totalsOnly(first_val) == Contains(HE_TOTAL, str(first_val))

\* The first cell ends the section: a totals marker or only whitespace.
EndsSection(first_val) ==
    \/ Contains(HE_TOTAL, str(first_val))
    \/ strip(str(first_val)) = <<>>

\* The Transactions of a row inside a section, whose first cell is present
\* and does not end the section.  currency_str is computed and not used:
\* the Transaction is built with currency 'ILS'.
CardRow(row, file_path, card_number) ==
    LET date == parse_date(Cell(row, 0))
        business_name == IF isna(Cell(row, 1)) THEN <<>>
                         ELSE strip(str(Cell(row, 1)))
        original_amount == parse_amount(Cell(row, 2))
        ils_amount == parse_amount(Cell(row, 4))
        final_amount == IF ~ils_amount.none THEN ils_amount
                        ELSE original_amount
    IN  IF \/ date = NoneDate
           \/ business_name = <<>>
           \/ business_name = HE_NOT_YET_POSTED
           \/ final_amount.none
        THEN <<>>
        ELSE <<Transaction(date, business_name, -Abs(final_amount.value),
                           "ILS", "credit_card", file_path, card_number)>>

\* The section loop of parse_credit_card_statement from row k on.
RECURSIVE CardRows(_, _, _, _, _)
CardRows(df, k, in_transaction_section, file_path, card_number) ==
    IF k > Len(df) THEN <<>>
    ELSE IF IsSectionHeader(df[k])
    THEN CardRows(df, k + 1, TRUE, file_path, card_number)
    ELSE IF ~in_transaction_section
    THEN CardRows(df, k + 1, FALSE, file_path, card_number)
    ELSE IF isna(Cell(df[k], 0))
    THEN CardRows(df, k + 1, TRUE, file_path, card_number)
    ELSE IF EndsSection(Cell(df[k], 0))
    THEN CardRows(df, k + 1, FALSE, file_path, card_number)
    ELSE CardRow(df[k], file_path, card_number)
             \o CardRows(df, k + 1, TRUE, file_path, card_number)

\* parse_credit_card_statement(file_path) on the sheet df.
parse_credit_card_statement(file_path, df) ==
    Return(CardRows(df, 1, FALSE, file_path, CardNumber(file_path, df)))

\* The path as one str: its components joined by "/".
RECURSIVE PathText(_)
PathText(file_path) ==
    IF file_path = <<>> THEN <<>>
    ELSE IF Len(file_path) = 1 THEN file_path[1]
    ELSE file_path[1] \o <<47>> \o PathText(Tail(file_path))

\* The text of the first ten rows that parse_file looks at.
first_rows_text(df) ==
    JoinSpace(TextsOf(Flatten(SubSeq(df, 1, IF Len(df) < 10 THEN Len(df)
                                            ELSE 10))))

\* The parser parse_file chooses: by content signature, then by file name.
Route(file_path, df) ==
    LET text == first_rows_text(df)
    IN  IF \/ Contains(HE_ACCOUNT_MOVEMENTS, text)
           \/ Contains(HE_BANK_YAHAV, text)
        THEN "bank"
        ELSE IF \/ Contains(HE_TRANSACTION_DETAILS, text)
                \/ Contains(HE_ISRACARD, text)
                \/ Contains(HE_MASTERCARD, text)
        THEN "credit_card"
        ELSE IF \/ Contains(HE_CURRENT_ACCOUNT, PathText(file_path))
                \/ Contains(BANK_WORD, lower(PathText(file_path)))
        THEN "bank"
        ELSE "credit_card"

\* parse_file that treats a bank sheet without a header row as empty.
parse_file_noHeaderIsEmpty(file_path, sheet) ==
    IF ~sheet.readable THEN Raise("Could not parse file")
    ELSE IF Route(file_path, sheet.rows) = "bank"
    THEN Return(parse_bank_statement(file_path, sheet.rows).transactions)
    ELSE parse_credit_card_statement(file_path, sheet.rows)

\* parse_file(file_path) where the file holds `sheet`: every exception of
\* the read or of the chosen parser is re-raised as a ValueError.
parse_file(file_path, sheet) ==
    IF ~sheet.readable THEN Raise("Could not parse file")
    ELSE LET r == IF Route(file_path, sheet.rows) = "bank"
                  THEN parse_bank_statement(file_path, sheet.rows)
                  ELSE parse_credit_card_statement(file_path, sheet.rows)
         IN  IF r.raised THEN Raise("Could not parse file") ELSE r

(***************************************************************************)
(* The store's operations as actions.                                      *)
(***************************************************************************)
\* add_transactions without the _save that follows the loop.
StoreAfterAdd_noSave(batch, source_file) ==
    LET r == AddLoop(transactions, batch, 0)
        files == IF source_file # NonePath
                 THEN MarkedFiles(processed_files, source_file)
                 ELSE processed_files
        marked == files # processed_files
    IN  [stored |-> r.stored,
         files |-> files,
         transactions_file |->
             IF marked THEN r.stored ELSE transactions_file,
         processed_files_file |->
             IF marked THEN files ELSE processed_files_file,
         added_count |-> r.added_count,
         saves |-> IF marked THEN 1 ELSE 0]

\* Storage.add_transactions(batch, source_file): the loop, _save when a
\* record was added, then mark_file_processed (which saves on a first mark).
\* _save writes both files; ret.saves counts the calls of _save.
StoreAfterAdd(batch, source_file) ==
    LET r == AddLoop(transactions, batch, 0)
        files == IF source_file # NonePath
                 THEN MarkedFiles(processed_files, source_file)
                 ELSE processed_files
        marked == files # processed_files
    IN  [stored |-> r.stored,
         files |-> files,
         transactions_file |->
             IF r.added_count > 0 \/ marked THEN r.stored
             ELSE transactions_file,
         processed_files_file |->
             IF marked THEN files
             ELSE IF r.added_count > 0 THEN processed_files
             ELSE processed_files_file,
         added_count |-> r.added_count,
         saves |-> (IF r.added_count > 0 THEN 1 ELSE 0)
                       + (IF marked THEN 1 ELSE 0)]

\* The call storage.add_transactions(batch, source_file) with the new
\* records put in front of the stored list.
AddTransactions_newFirst(batch, source_file) ==
    LET a == StoreAfterAdd(batch, source_file)
        stored == SubSeq(a.stored, Len(transactions) + 1, Len(a.stored))
                      \o transactions
    IN  /\ Len(a.stored) <= MaxStore
        /\ transactions' = stored
        /\ processed_files' = a.files
        /\ transactions_file' =
               IF a.saves > 0 THEN stored ELSE transactions_file
        /\ processed_files_file' = a.processed_files_file
        /\ ret' = [op |-> "add_transactions", transactions |-> batch,
                   source_file |-> source_file, result |-> a.added_count,
                   saves |-> a.saves]
        /\ UNCHANGED <<catVars, cmd>>

\* The call storage.add_transactions(batch, source_file).
AddTransactions(batch, source_file) ==
    LET a == StoreAfterAdd(batch, source_file)
    IN  /\ Len(a.stored) <= MaxStore
        /\ transactions' = a.stored
        /\ processed_files' = a.files
        /\ transactions_file' = a.transactions_file
        /\ processed_files_file' = a.processed_files_file
        /\ ret' = [op |-> "add_transactions", transactions |-> batch,
                   source_file |-> source_file, result |-> a.added_count,
                   saves |-> a.saves]
        /\ UNCHANGED <<catVars, cmd>>

\* Storage.mark_file_processed(file_path).
MarkFileProcessed(file_path) ==
    LET files == MarkedFiles(processed_files, file_path)
        marked == files # processed_files
    IN  /\ processed_files' = files
        /\ transactions_file' =
               IF marked THEN transactions ELSE transactions_file
        /\ processed_files_file' =
               IF marked THEN files ELSE processed_files_file
        /\ ret' = [op |-> "mark_file_processed", file_path |-> file_path,
                   saves |-> IF marked THEN 1 ELSE 0]
        /\ UNCHANGED <<transactions, catVars, cmd>>

\* Storage.clear_all().
ClearAll ==
    /\ transactions' = <<>>
    /\ processed_files' = <<>>
    /\ transactions_file' = <<>>
    /\ processed_files_file' = <<>>
    /\ ret' = [op |-> "clear_all", saves |-> 1]
    /\ UNCHANGED <<catVars, cmd>>

\* Storage.get_monthly_summary(year, month), exclude_cc_transfers left at
\* its default.
GetMonthlySummary(year, month) ==
    /\ ret' = [op |-> "get_monthly_summary", year |-> year, month |-> month,
               result |-> get_monthly_summary(transactions, year, month, TRUE)]
    /\ UNCHANGED <<storeVars, catVars, cmd>>

\* Storage(data_dir) on a first run, Categorizer(config_dir) with no
\* overrides file: nothing stored, nothing processed, no overrides.
Init ==
    /\ transactions = <<>>
    /\ processed_files = <<>>
    /\ transactions_file = <<>>
    /\ processed_files_file = <<>>
    /\ overrides = <<>>
    /\ overrides_file = <<>>
    /\ ret = [op |-> "init"]
    /\ cmd = Idle

\* Imports of whole batches, marks and resets: the store's write side.
NextDedup ==
    \/ \E batch \in Batches(DedupPool, MaxBatch) :
           AddTransactions(batch, NonePath)
    \/ \E file_path \in SourceFiles \ {NonePath} :
           MarkFileProcessed(file_path)
    \/ ClearAll

SpecDedup == Init /\ [][NextDedup]_vars

\* One transaction added per call, resets, and monthly summaries.
NextSummary ==
    \/ \E batch \in Batches(TxPool, 1) : AddTransactions(batch, NonePath)
    \/ ClearAll
    \/ \E ym \in Months : GetMonthlySummary(ym[1], ym[2])

SpecSummary == Init /\ [][NextSummary]_vars

\* Storage.get_transactions(start_date, end_date, category, source).
GetTransactions(start_date, end_date, category, source) ==
    /\ ret' = [op |-> "get_transactions", start_date |-> start_date,
               end_date |-> end_date, category |-> category,
               source |-> source,
               result |-> get_transactions(transactions, start_date,
                                           end_date, category, source)]
    /\ UNCHANGED <<storeVars, catVars, cmd>>

\* The transactions of the query runs: two dates shared by a pair, two
\* categories and no category, both sources.
QueryPool ==
    { Tx(D_MAR5, SUPERMARKET, -100000, "credit_card", "food"),
      Tx(D_MAR5, MASTERCARD, -3000, "bank", "food"),
      Tx(D_APR1, SALARY, 200000, "bank", "salary"),
      Tx(D_APR1_10H, SUPERMARKET, -50, "credit_card", None),
      Tx(D_DEC31, MASTERCARD, 40, "bank", None) }

\* The filter values of the query runs; NoneDate and None are an omitted
\* filter.
QueryDates == {NoneDate, D_MAR5, D_APR1}
QueryCategories == {None, "food", "salary"}
QuerySources == {None, "bank", "credit_card"}

\* Imports of one transaction, resets and filtered queries.
NextQuery ==
    \/ \E batch \in Batches(QueryPool, 1) : AddTransactions(batch, NonePath)
    \/ ClearAll
    \/ \E start_date \in QueryDates, end_date \in QueryDates,
          category \in QueryCategories, source \in QuerySources :
           GetTransactions(start_date, end_date, category, source)

SpecQuery == Init /\ [][NextQuery]_vars

\* Storage.is_file_processed(file_path).
IsFileProcessed(file_path) ==
    /\ ret' = [op |-> "is_file_processed", file_path |-> file_path,
               result |-> is_file_processed(file_path)]
    /\ UNCHANGED <<storeVars, catVars, cmd>>

\* The paths of the processed-file operations: two base names, each reached
\* by two paths.
FilePaths == {BANK_FILE, <<BANK_XLSX>>, CARD_FILE, <<CARD_1234_XLSX>>}

\* Imports of one transaction with or without a source file, marks,
\* resets and processed-file queries.
NextFiles ==
    \/ \E batch \in Batches(DedupPool, 1),
          source_file \in FilePaths \cup {NonePath} :
           AddTransactions(batch, source_file)
    \/ \E file_path \in FilePaths : MarkFileProcessed(file_path)
    \/ ClearAll
    \/ \E file_path \in FilePaths : IsFileProcessed(file_path)

SpecFiles == Init /\ [][NextFiles]_vars

(***************************************************************************)
(* Parsing a statement file.  The file and its sheet are chosen at the     *)
(* start (ret.op = "open"); parse_file is then applied to them.            *)
(***************************************************************************)
\* parse_file(ret.file_path) on the opened sheet.
ParseFile ==
    /\ ret.op = "open"
    /\ ret' = [op |-> "parse_file", file_path |-> ret.file_path,
               sheet |-> ret.sheet,
               result |-> parse_file(ret.file_path, ret.sheet)]
    /\ UNCHANGED <<storeVars, catVars, cmd>>

\* The sheets of at most n rows drawn from a pool of rows, and one file
\* that read_excel cannot read.
Sheets(rows, n) ==
    {[readable |-> TRUE, rows |-> df] : df \in Batches(rows, n)}
        \cup {[readable |-> FALSE, rows |-> <<>>]}

\* "stmts/card.xlsx": a card file name without digits.
CARD_XLSX == <<99, 97, 114, 100, 46, 120, 108, 115, 120>>
CARD_FILE_PLAIN == <<STMTS, CARD_XLSX>>

\* Cell texts of the sheets: "05.03.26", "05/03/2026", "2026-04-01",
\* "1,000.00", "-70.00", a totals line, two card lines ending in "- 5678"
\* and in an en dash, "9012" and a blank.
TEXT_05_03_26 == <<48, 53, 46, 48, 51, 46, 50, 54>>
TEXT_05_03_2026 == <<48, 53, 47, 48, 51, 47, 50, 48, 50, 54>>
TEXT_2026_04_01 == <<50, 48, 50, 54, 45, 48, 52, 45, 48, 49>>
TEXT_1000 == <<49, 44, 48, 48, 48, 46, 48, 48>>
TEXT_MINUS_70 == <<45, 55, 48, 46, 48, 48>>
TEXT_TOTAL_CHARGE == <<1505, 1492, 34, 1499, 32, 1500, 1495, 1497, 1493, 1489>>
TEXT_CARD_5678 == <<1499, 1512, 1496, 1497, 1505, 32, 45, 32, 53, 54, 55, 56>>
TEXT_CARD_9012 == <<1493, 1497, 1494, 1492, 32, 8211, 32, 57, 48, 49, 50, 32>>

\* Rows of a bank sheet (columns 0 date, 3 description, 4 debit, 5 credit).
BANK_SIGNATURE_ROW == <<StrCell(HE_ACCOUNT_MOVEMENTS), NaN, NaN, NaN, NaN, NaN>>
CARD_SIGNATURE_ROW == <<StrCell(HE_ISRACARD), NaN, NaN, NaN, NaN, NaN>>
BANK_HEADER_ROW ==
    <<StrCell(HE_DATE), NaN, NaN, StrCell(HE_ACTION_DESCRIPTION), NaN, NaN>>
DEBIT_ROW ==
    <<StrCell(TEXT_05_03_26), NaN, NaN, StrCell(SUPERMARKET),
      NumCell(24100), NaN>>
CREDIT_ROW ==
    <<DateCell(D_APR1), NaN, NaN, StrCell(SALARY), NaN, StrCell(TEXT_1000)>>
DEBIT_CREDIT_ROW ==
    <<StrCell(TEXT_2026_04_01), NaN, NaN, StrCell(MASTERCARD),
      NumCell(3000), NumCell(40)>>
NEGATIVE_DEBIT_ROW ==
    <<StrCell(TEXT_05_03_2026), NaN, NaN, StrCell(SUPERMARKET),
      NumCell(-10000), NaN>>
ZERO_DEBIT_NEGATIVE_CREDIT_ROW ==
    <<DateCell(D_MAR5), NaN, NaN, StrCell(SALARY),
      NumCell(0), StrCell(TEXT_MINUS_70)>>
BANK_TOTALS_ROW ==
    <<StrCell(TEXT_TOTAL_CHARGE), NaN, NaN, NaN, NumCell(24100), NaN>>

BankRowPool ==
    { BANK_SIGNATURE_ROW, CARD_SIGNATURE_ROW, BANK_HEADER_ROW, DEBIT_ROW,
      CREDIT_ROW, DEBIT_CREDIT_ROW, NEGATIVE_DEBIT_ROW,
      ZERO_DEBIT_NEGATIVE_CREDIT_ROW, BANK_TOTALS_ROW }

\* Rows of a card sheet (columns 0 date, 1 business, 2 amount, 3 currency,
\* 4 charge in ILS).
SECTION_HEADER_ROW ==
    <<StrCell(HE_PURCHASE_DATE), StrCell(HE_BUSINESS_NAME), NaN, NaN, NaN>>
ILS_ROW ==
    <<StrCell(TEXT_05_03_26), StrCell(SUPERMARKET), NumCell(20000),
      StrCell(<<8362>>), NumCell(20000)>>
USD_ROW ==
    <<DateCell(D_MAR31), StrCell(MASTERCARD), NumCell(2000),
      StrCell(<<36>>), NaN>>
EUR_ROW ==
    <<DateCell(D_APR1), StrCell(SUPER), NumCell(1000),
      StrCell(<<8364>>), NumCell(4000)>>
MISSING_FIRST_ROW ==
    <<NaN, StrCell(SUPERMARKET), NumCell(600), NaN, NumCell(600)>>
BLANK_FIRST_ROW == <<StrCell(<<32>>), NaN, NaN, NaN, NaN>>
CARD_TOTALS_ROW ==
    <<StrCell(TEXT_TOTAL_CHARGE), NaN, NaN, NaN, NumCell(20000)>>
CARD_5678_ROW == <<StrCell(TEXT_CARD_5678), NaN, NaN, NaN, NaN>>
CARD_9012_ROW == <<NaN, StrCell(TEXT_CARD_9012), NaN, NaN, NaN>>

CardRowPool ==
    { SECTION_HEADER_ROW, ILS_ROW, USD_ROW, EUR_ROW, MISSING_FIRST_ROW,
      BLANK_FIRST_ROW, CARD_TOTALS_ROW, CARD_5678_ROW, CARD_9012_ROW }

\* The empty store and categorizer next to an opened file.
Opened(paths, sheets) ==
    /\ transactions = <<>>
    /\ processed_files = <<>>
    /\ transactions_file = <<>>
    /\ processed_files_file = <<>>
    /\ overrides = <<>>
    /\ overrides_file = <<>>
    /\ \E file_path \in paths, sheet \in sheets :
           ret = [op |-> "open", file_path |-> file_path, sheet |-> sheet]
    /\ cmd = Idle

\* A bank-named or card-named file holding a sheet of bank rows.
InitBank == Opened({BANK_FILE, CARD_FILE}, Sheets(BankRowPool, MaxRows))

\* A card file, named with or without digits, holding a sheet of card rows.
InitCard == Opened({CARD_FILE, CARD_FILE_PLAIN}, Sheets(CardRowPool, MaxRows))

NextParse == ParseFile

SpecBank == InitBank /\ [][NextParse]_vars

SpecCard == InitCard /\ [][NextParse]_vars

(***************************************************************************)
(* The import command (src/finance_tool.py, cmd_import), one step per      *)
(* file of args.files.  The statement files on disk are fixed.             *)
(***************************************************************************)
\* "old/bank.xlsx", "stmts/broken.xlsx", "stmts/bank_raw.xlsx" and
\* "stmts/gone.xlsx".
OLD == <<111, 108, 100>>
BROKEN_XLSX == <<98, 114, 111, 107, 101, 110, 46, 120, 108, 115, 120>>
BANK_RAW_XLSX == <<98, 97, 110, 107, 95, 114, 97, 119, 46, 120, 108, 115, 120>>
GONE_XLSX == <<103, 111, 110, 101, 46, 120, 108, 115, 120>>
BANK_FILE_OLD == <<OLD, BANK_XLSX>>
BROKEN_FILE == <<STMTS, BROKEN_XLSX>>
BANK_RAW_FILE == <<STMTS, BANK_RAW_XLSX>>
GONE_FILE == <<STMTS, GONE_XLSX>>
\* "bank_fees.xlsx"
BANK_FEES_XLSX ==
    <<98, 97, 110, 107, 95, 102, 101, 101, 115, 46, 120, 108, 115, 120>>
BANK_FEES_FILE == <<STMTS, BANK_FEES_XLSX>>

\* os.path.exists(file_path): every file but stmts/gone.xlsx is there.
exists(file_path) ==
    file_path \in {BANK_FILE, BANK_FILE_OLD, CARD_FILE, BROKEN_FILE,
                   BANK_RAW_FILE, BANK_FEES_FILE}

\* What pd.read_excel finds in a file: two bank statements with the same
\* base name and one row each, a card statement with one charge, a file
\* that cannot be read, a bank sheet without a header row, and a bank
\* statement whose one row books a card fee and its refund.
Disk(file_path) ==
    CASE file_path = BANK_FILE ->
             [readable |-> TRUE, rows |-> <<BANK_HEADER_ROW, DEBIT_ROW>>]
      [] file_path = BANK_FILE_OLD ->
             [readable |-> TRUE, rows |-> <<BANK_HEADER_ROW, CREDIT_ROW>>]
      [] file_path = CARD_FILE ->
             [readable |-> TRUE, rows |-> <<SECTION_HEADER_ROW, ILS_ROW>>]
      [] file_path = BANK_RAW_FILE ->
             [readable |-> TRUE, rows |-> <<DEBIT_CREDIT_ROW>>]
      [] file_path = BANK_FEES_FILE ->
             [readable |-> TRUE,
              rows |-> <<BANK_HEADER_ROW, DEBIT_CREDIT_ROW>>]
      [] file_path \notin {BANK_FILE, BANK_FILE_OLD, CARD_FILE,
                           BANK_RAW_FILE, BANK_FEES_FILE} ->
             [readable |-> FALSE, rows |-> <<>>]

\* Categorizer.categorize_transactions(transactions)
categorize_transactions(ovr, txs) ==
    [i \in DOMAIN txs |->
         [txs[i] EXCEPT !.category = categorize(ovr, txs[i].description)]]

\* The start of cmd_import: Storage and Categorizer are built from the
\* files of the data and config directories.
CmdImport(files, force) ==
    /\ cmd.name = "idle"
    /\ transactions' = transactions_file
    /\ processed_files' = processed_files_file
    /\ overrides' = overrides_file
    /\ cmd' = [name |-> "import", files |-> files, force |-> force,
               pos |-> 1, total_added |-> 0, total_files |-> 0]
    /\ ret' = [op |-> "cmd_import", files |-> files, force |-> force]
    /\ UNCHANGED <<transactions_file, processed_files_file, overrides_file>>

\* The force flag ignored: a processed file is always skipped.
ImportOutcome_forceIgnored(file_path, force) ==
    IF ~exists(file_path) THEN "not found"
    ELSE IF is_file_processed(file_path) THEN "skipped"
    ELSE IF parse_file(file_path, Disk(file_path)).raised THEN "error"
    ELSE "imported"

\* What one pass of the loop does with file_path: not found, skipped as
\* processed, failed inside the try block, or imported.
ImportOutcome(file_path, force) ==
    IF ~exists(file_path) THEN "not found"
    ELSE IF is_file_processed(file_path) /\ ~force THEN "skipped"
    ELSE IF parse_file(file_path, Disk(file_path)).raised THEN "error"
    ELSE "imported"

\* One pass of the loop of cmd_import, for the file at cmd.pos.  The
\* outcome, the categorized Transactions and the store after
\* add_transactions are each computed once.
ImportFile ==
    /\ cmd.name = "import"
    /\ cmd.pos <= Len(cmd.files)
    /\ \E file_path \in {cmd.files[cmd.pos]} :
       \E outcome \in {ImportOutcome(file_path, cmd.force)} :
           IF outcome = "imported"
           THEN \E batch \in {categorize_transactions(overrides,
                                  parse_file(file_path,
                                             Disk(file_path)).transactions)} :
                \E a \in {StoreAfterAdd(batch, file_path)} :
                    /\ Len(a.stored) <= MaxStore
                    /\ transactions' = a.stored
                    /\ processed_files' = a.files
                    /\ transactions_file' = a.transactions_file
                    /\ processed_files_file' = a.processed_files_file
                    /\ cmd' = [cmd EXCEPT
                                   !.pos = @ + 1,
                                   !.total_added = @ + a.added_count,
                                   !.total_files = @ + 1]
                    /\ ret' = [op |-> "import_file",
                               file_path |-> file_path,
                               force |-> cmd.force, outcome |-> outcome,
                               parsed |-> Len(batch),
                               added |-> a.added_count]
           ELSE /\ UNCHANGED storeVars
                /\ cmd' = [cmd EXCEPT !.pos = @ + 1]
                /\ ret' = [op |-> "import_file", file_path |-> file_path,
                           force |-> cmd.force, outcome |-> outcome,
                           parsed |-> 0, added |-> 0]
    /\ UNCHANGED catVars

\* cmd_import ending at the first file that fails.
ImportDone_afterError ==
    /\ cmd.name = "import"
    /\ \/ cmd.pos > Len(cmd.files)
       \/ ret.op = "import_file" /\ ret.outcome = "error"
    /\ cmd' = Idle
    /\ ret' = [op |-> "cmd_import_done", total_added |-> cmd.total_added,
               total_files |-> cmd.total_files]
    /\ UNCHANGED <<storeVars, catVars>>

\* The end of cmd_import, after the last file.
ImportDone ==
    /\ cmd.name = "import"
    /\ cmd.pos > Len(cmd.files)
    /\ cmd' = Idle
    /\ ret' = [op |-> "cmd_import_done", total_added |-> cmd.total_added,
               total_files |-> cmd.total_files]
    /\ UNCHANGED <<storeVars, catVars>>

\* The paths given on the command line, and the lists of them.
ImportPaths ==
    {BANK_FILE, BANK_FILE_OLD, CARD_FILE, BROKEN_FILE, BANK_RAW_FILE,
     GONE_FILE}
FileLists == UNION {[1..k -> ImportPaths] : k \in 1..MaxFiles}

\* Import commands one after another, with and without --force.
NextImport ==
    \/ \E files \in FileLists, force \in BOOLEAN : CmdImport(files, force)
    \/ ImportFile
    \/ ImportDone

SpecImport == Init /\ [][NextImport]_vars

\* cmd_override: a Categorizer is built from the overrides file; a category
\* that is no key of the catalog ends the command, any other goes to
\* add_override.
CmdOverride(description, category) ==
    /\ cmd.name = "idle"
    /\ \E after \in {IF InCategories(category)
                      THEN OverridesAfterAdd(overrides_file, description,
                                             category)
                      ELSE overrides_file} :
           /\ Len(after) <= MaxOverrides
           /\ overrides' = after
           /\ overrides_file' = after
    /\ ret' = [op |-> "cmd_override", description |-> description,
               category |-> category, result |-> InCategories(category)]
    /\ UNCHANGED <<storeVars, cmd>>

\* Imports, forced or not, of two bank statements, with override commands
\* between them.
ReimportPaths == {BANK_FILE, BANK_FEES_FILE}
NextReimport ==
    \/ \E files \in UNION {[1..k -> ReimportPaths] : k \in 1..MaxFiles},
          force \in BOOLEAN : CmdImport(files, force)
    \/ ImportFile
    \/ ImportDone
    \/ \E description \in {MASTERCARD, SUPERMARKET},
          category \in CategoryKeys : CmdOverride(description, category)

SpecReimport == Init /\ [][NextReimport]_vars

(***************************************************************************)
(* The interactive re-categorization command.                              *)
(***************************************************************************)
\* Categorizer.get_category_names(): the catalog keys in catalog order.
get_category_names == [c \in DOMAIN categories |-> categories[c].key]

\* `[t for t in transactions if t.category == 'other']`, as the positions
\* of those transactions in the list (the objects are shared).
Uncategorized(txs) ==
    LET InOther(i) == txs[i].category = OTHER_KEY
    IN  SelectSeq([i \in DOMAIN txs |-> i], InOther)

\* int(choice) for a stripped answer: the number a run of decimal digits
\* with an optional sign stands for, a ValueError for anything else.
int(choice) ==
    LET digits == IF choice # <<>> /\ choice[1] \in {43, 45}
                  THEN Tail(choice) ELSE choice
    IN  IF digits = <<>> \/ \E k \in DOMAIN digits : ~IsDigit(digits[k])
        THEN [error |-> TRUE, value |-> 0]
        ELSE [error |-> FALSE,
              value |-> IF choice[1] = 45 THEN 0 - ToInt(digits)
                        ELSE ToInt(digits)]

\* The answers typed at a prompt: "q", "Q", "s", " 1", "2", "3", "0", "4",
\* "x" and the empty line.
Choices ==
    {<<113>>, <<81>>, <<115>>, <<32, 49>>, <<50>>, <<51>>, <<48>>, <<52>>,
     <<120>>, <<>>}

\* The start of cmd_interactive, up to the first prompt: Storage and
\* Categorizer are built from their files, every stored transaction is read
\* and categorized again, and those left in 'other' are queued.
CmdInteractive ==
    /\ cmd.name = "idle"
    /\ transactions' = transactions_file
    /\ processed_files' = processed_files_file
    /\ overrides' = overrides_file
    /\ \E txs \in {categorize_transactions(overrides_file,
                        get_transactions(transactions_file, NoneDate,
                                         NoneDate, None, None))} :
           cmd' = [name |-> "interactive", pos |-> 1, transactions |-> txs,
                   uncategorized |-> Uncategorized(txs)]
    /\ ret' = [op |-> "cmd_interactive"]
    /\ UNCHANGED <<transactions_file, processed_files_file, overrides_file>>

\* One pass of the prompt loop that assigns the category and adds no
\* override.
AfterChoice_noOverride(ovr, t, choice) ==
    LET names == get_category_names
        n == int(choice)
        idx == n.value - 1
    IN  IF lower(choice) \in {<<113>>, <<115>>} \/ n.error
           \/ ~(0 <= idx /\ idx < Len(names))
        THEN [category |-> t.category, overrides |-> ovr, added |-> FALSE]
        ELSE [category |-> names[idx + 1], overrides |-> ovr,
              added |-> FALSE]

\* The category and the override set one pass of the prompt loop leaves for
\* the transaction t and the stripped answer: an in-range number assigns
\* the category it names and adds the override, anything else changes
\* nothing.
AfterChoice(ovr, t, choice) ==
    LET names == get_category_names
        n == int(choice)
        idx == n.value - 1
    IN  IF lower(choice) \in {<<113>>, <<115>>} \/ n.error
           \/ ~(0 <= idx /\ idx < Len(names))
        THEN [category |-> t.category, overrides |-> ovr, added |-> FALSE]
        ELSE [category |-> names[idx + 1],
              overrides |-> OverridesAfterAdd(ovr, t.description,
                                              names[idx + 1]),
              added |-> TRUE]

\* One pass of the loop of interactive_categorize: the transaction at
\* cmd.pos is shown and the answer is read.  'q' leaves the loop.
Prompt(answer) ==
    /\ cmd.name = "interactive"
    /\ cmd.pos <= Len(cmd.uncategorized)
    /\ \E i \in {cmd.uncategorized[cmd.pos]} :
       \E choice \in {strip(answer)} :
       \E a \in {AfterChoice(overrides, cmd.transactions[i], choice)} :
           /\ Len(a.overrides) <= MaxOverrides
           /\ overrides' = a.overrides
           /\ overrides_file' = IF a.added THEN a.overrides
                                ELSE overrides_file
           /\ cmd' = [cmd EXCEPT
                          !.pos = IF lower(choice) = <<113>>
                                  THEN Len(cmd.uncategorized) + 1
                                  ELSE @ + 1,
                          !.transactions[i].category = a.category]
           /\ ret' = [op |-> "prompt", answer |-> answer, index |-> i]
    /\ UNCHANGED storeVars

\* The end of cmd_interactive, after the loop: storage.clear_all(), then
\* storage.add_transactions(transactions) with no source file.
InteractiveDone ==
    /\ cmd.name = "interactive"
    /\ cmd.pos > Len(cmd.uncategorized)
    /\ \E r \in {AddLoop(<<>>, cmd.transactions, 0)} :
           /\ transactions' = r.stored
           /\ transactions_file' = r.stored
           /\ ret' = [op |-> "cmd_interactive_done",
                      result |-> r.added_count]
    /\ processed_files' = <<>>
    /\ processed_files_file' = <<>>
    /\ cmd' = Idle
    /\ UNCHANGED catVars

\* Imports and interactive re-categorizations, one command after another.
NextInteractive ==
    \/ \E files \in UNION {[1..k -> ReimportPaths] : k \in 1..MaxFiles},
          force \in BOOLEAN : CmdImport(files, force)
    \/ ImportFile
    \/ ImportDone
    \/ CmdInteractive
    \/ \E answer \in Choices : Prompt(answer)
    \/ InteractiveDone

SpecInteractive == Init /\ [][NextInteractive]_vars

(***************************************************************************)
(* The categorizer's operations as actions.                                *)
(***************************************************************************)
\* Categorizer.add_override(description, category_key): False and nothing
\* else for an unknown category, else the assignment and save_overrides.
AddOverride(description, category_key) ==
    LET ok == ~(~InCategories(category_key) /\ category_key # OTHER_KEY)
        after == OverridesAfterAdd(overrides, description, category_key)
    IN  /\ Len(after) <= MaxOverrides
        /\ overrides' = after
        /\ overrides_file' = IF ok THEN after ELSE overrides_file
        /\ ret' = [op |-> "add_override", description |-> description,
                   category_key |-> category_key, result |-> ok]
        /\ UNCHANGED <<storeVars, cmd>>

\* Categorizer.remove_override(description).
RemoveOverride(description) ==
    LET i == IndexOf(overrides, description)
        after == IF i = 0 THEN overrides
                 ELSE SubSeq(overrides, 1, i - 1)
                          \o SubSeq(overrides, i + 1, Len(overrides))
    IN  /\ overrides' = after
        /\ overrides_file' = IF i = 0 THEN overrides_file ELSE after
        /\ ret' = [op |-> "remove_override", description |-> description,
                   result |-> (i # 0)]
        /\ UNCHANGED <<storeVars, cmd>>

\* Categorizer.list_overrides().
ListOverrides ==
    /\ ret' = [op |-> "list_overrides", result |-> overrides]
    /\ UNCHANGED <<storeVars, catVars, cmd>>

\* Categorizer.categorize(description).
Categorize(description) ==
    /\ ret' = [op |-> "categorize", description |-> description,
               result |-> categorize(overrides, description)]
    /\ UNCHANGED <<storeVars, catVars, cmd>>

\* The transaction lists handed to categorize_transactions: parsed
\* transactions (no category yet) and stored ones read back with a category.
CatPool ==
    { Tx(D_MAR5, ISRACARD_SETTLEMENT, -100000, "bank", None),
      Tx(D_MAR5, SUPERMARKET, -100001, "credit_card", OTHER_KEY) }

\* Categorizer.categorize_transactions(transactions): the list with each
\* category assigned from categorize, returned.
CategorizeTransactions(txs) ==
    /\ ret' = [op |-> "categorize_transactions", transactions |-> txs,
               result |-> categorize_transactions(overrides, txs)]
    /\ UNCHANGED <<storeVars, catVars, cmd>>

\* Categorizer(config_dir) with an overrides file present, next to an
\* empty store.
InitCat ==
    /\ transactions = <<>>
    /\ processed_files = <<>>
    /\ transactions_file = <<>>
    /\ processed_files_file = <<>>
    /\ \E loaded \in LoadedOverrides :
           overrides = loaded /\ overrides_file = loaded
    /\ ret = [op |-> "init"]
    /\ cmd = Idle

NextCat ==
    \/ \E description \in Patterns, category_key \in CategoryKeys :
           AddOverride(description, category_key)
    \/ \E description \in Patterns : RemoveOverride(description)
    \/ ListOverrides
    \/ \E description \in Descriptions : Categorize(description)
    \/ \E txs \in Batches(CatPool, MaxBatch) : CategorizeTransactions(txs)

SpecCat == InitCat /\ [][NextCat]_vars

(***************************************************************************)
(* Vocabulary of the properties.                                           *)
(***************************************************************************)
\* The stored records, as Transactions.
Stored == [i \in DOMAIN transactions |-> from_dict(transactions[i])]

\* Two transactions with the same dedup identity: equal date, identical
\* description, amounts less than 0.01 (two half-agorot) apart.
SameIdentity(a, b) ==
    /\ a.date = b.date
    /\ a.description = b.description
    /\ a.amount - b.amount \in {-1, 0, 1}

\* The positions of the stored records with the identity of t.
RecordsOf(t) == {k \in DOMAIN Stored : SameIdentity(Stored[k], t)}

\* The last call was add_transactions / get_monthly_summary.
Added == ret.op = "add_transactions"
Summarised == ret.op = "get_monthly_summary"

\* The members of a category breakdown, over all its categories.
MembersOf(by_category) ==
    UNION {Range(by_category[c].transactions) : c \in DOMAIN by_category}

\* The sum of the totals of a category breakdown.
RECURSIVE SumTotals(_, _)
SumTotals(by_category, cats) ==
    IF cats = {} THEN 0
    ELSE LET c == CHOOSE x \in cats : TRUE
         IN  by_category[c].total + SumTotals(by_category, cats \ {c})

\* The sum of f over a finite set of transactions.
RECURSIVE SumAbs(_)
SumAbs(ts) ==
    IF ts = {} THEN 0
    ELSE LET t == CHOOSE x \in ts : TRUE
         IN  Abs(t.amount) + SumAbs(ts \ {t})

\* The stored transactions dated in the calendar month (year, month).
StoredInMonth(year, month) ==
    {t \in Range(Stored) : t.date[1] = year /\ t.date[2] = month}

\* The stored transactions the summary's range start <= date <= end admits.
StoredInRange(year, month) ==
    {t \in Range(Stored) :
        /\ ~DateLess(t.date, <<year, month, 1, 0>>)
        /\ ~DateLess(IF month = 12 THEN <<year + 1, 1, 1, 0>>
                     ELSE <<year, month + 1, 1, 0>>, t.date)}

\* Everything a summary reports: breakdown members and excluded transfers.
Reported(summary) ==
    MembersOf(summary.expense_by_category)
        \cup MembersOf(summary.income_by_category)
        \cup Range(summary.excluded_cc_transfers)

T_ISRACARD == Tx(D_MAR5, ISRACARD_SETTLEMENT, -100000, "bank", OTHER_KEY)
T_SUPERMARKET == Tx(D_MAR5, SUPERMARKET, -100000, "credit_card", "food")
T_SUPERMARKET_BANK == Tx(D_MAR5, SUPERMARKET, -100001, "bank", None)
T_MASTERCARD == Tx(D_MAR5, MASTERCARD, -3000, "bank", "food")
T_ZERO == Tx(D_MAR31, SUPERMARKET, 0, "credit_card", "food")

(***************************************************************************)
(* C1 - deduplication on (date, description, amount within 0.01).          *)
(***************************************************************************)
\* C1 as stated: when two transactions of one add_transactions batch have
\* equal date, identical description and amounts less than 0.01 apart, the
\* store afterwards holds exactly one record with that identity.
C1_ExactlyOneRecord ==
    Added =>
        \A i, j \in DOMAIN ret.transactions :
            (i < j /\ SameIdentity(ret.transactions[i], ret.transactions[j]))
                => Cardinality(RecordsOf(ret.transactions[i])
                                 \cap RecordsOf(ret.transactions[j])) = 1

\* No two stored records have the same identity.
NoTwoAlike(stored) ==
    \A i, j \in DOMAIN stored :
        i # j => ~SameIdentity(from_dict(stored[i]), from_dict(stored[j]))

\* Every transaction of the batch has a stored record with its identity.
Covered(batch, stored) ==
    \A i \in DOMAIN batch :
        \E k \in DOMAIN stored : SameIdentity(from_dict(stored[k]), batch[i])

\* C1 amended: after add_transactions the store holds at least one record
\* with the identity of every transaction passed in that call and in the
\* call before it, and no two stored records have the same identity, so of
\* two transactions with one identity at most one is stored.
C1_Dedup ==
    [][ret'.op = "add_transactions" =>
          /\ NoTwoAlike(transactions')
          /\ Covered(ret'.transactions, transactions')
          /\ (Added => Covered(ret.transactions, transactions'))]_vars

\* C1 witness: a batch of two transactions with one identity that differ in
\* amount, source, file and category was added, and one record was stored.
C1_Witness ==
    /\ Added
    /\ ret.transactions = <<T_SUPERMARKET, T_SUPERMARKET_BANK>>
    /\ ret.result = 1
    /\ Stored = <<T_SUPERMARKET>>

(***************************************************************************)
(* C2 - adding the same batch again adds nothing.                          *)
(***************************************************************************)
\* C2: an add_transactions call with the same list as the call before it
\* returns 0 and leaves the stored list unchanged.
C2_SecondAddIsNoOp ==
    [][(Added /\ ret'.op = "add_transactions"
            /\ ret'.transactions = ret.transactions)
          => (ret'.result = 0 /\ transactions' = transactions)]_vars

\* C2 witness: a batch of two transactions that are duplicates of each
\* other was passed to a store that holds them, and nothing was added.
C2_Witness ==
    /\ Added
    /\ ret.transactions = <<T_SUPERMARKET_BANK, T_SUPERMARKET>>
    /\ ret.result = 0
    /\ Stored = <<T_SUPERMARKET_BANK>>

(***************************************************************************)
(* C3 - the double-counting guard on the spec's example.                   *)
(***************************************************************************)
\* C3: with the bank line "ISRACARD SETTLEMENT" -500 and the credit-card
\* line "SUPERMARKET" -500 stored, both of March 2026, the summary of March
\* 2026 has total_excluded = 500 and total_expenses = 500, the bank line
\* being the one excluded transfer.
C3_DoubleCountingGuard ==
    (/\ Summarised
     /\ ret.year = 2026
     /\ ret.month = 3
     /\ Range(Stored) = {T_ISRACARD, T_SUPERMARKET})
        => /\ ret.result.total_excluded = 100000
           /\ ret.result.total_expenses = 100000
           /\ ret.result.excluded_cc_transfers = <<T_ISRACARD>>

(***************************************************************************)
(* C4 - the month a summary covers.                                        *)
(***************************************************************************)
\* C4: a summary of (year, month) reports exactly the stored transactions
\* dated in that calendar month, first of the month included and first of
\* the next month excluded.
C4_HalfOpenMonth ==
    Summarised =>
        /\ Reported(ret.result) = StoredInMonth(ret.year, ret.month)
        /\ ret.result.transaction_count
               = Cardinality(StoredInMonth(ret.year, ret.month))

(***************************************************************************)
(* C6 - the totals of a summary agree.                                     *)
(***************************************************************************)
\* C6: in every summary balance = total_income - total_expenses, the
\* expense category totals add up to total_expenses and the income
\* category totals add up to total_income.
C6_TotalsAgree ==
    Summarised =>
        LET r == ret.result
        IN  /\ r.balance = r.total_income - r.total_expenses
            /\ SumTotals(r.expense_by_category, DOMAIN r.expense_by_category)
                   = r.total_expenses
            /\ SumTotals(r.income_by_category, DOMAIN r.income_by_category)
                   = r.total_income

\* C6 witness: a summary with two expense categories, one of them with two
\* members, and a non-zero expense total.
C6_Witness ==
    /\ Summarised
    /\ Cardinality(DOMAIN ret.result.expense_by_category) = 2
    /\ \E c \in DOMAIN ret.result.expense_by_category :
           Len(ret.result.expense_by_category[c].transactions) = 2
    /\ ret.result.total_expenses > 0

(***************************************************************************)
(* C8 - transactions of amount zero.                                       *)
(***************************************************************************)
\* C8: a selected transaction of amount 0 that is not an excluded transfer
\* is counted in transaction_count and is a member of neither breakdown.
C8_ZeroInNoBreakdown ==
    Summarised =>
        \A t \in StoredInRange(ret.year, ret.month) :
            (t.amount = 0 /\ t \notin Range(ret.result.excluded_cc_transfers))
                => /\ ret.result.transaction_count >= 1
                   /\ t \notin MembersOf(ret.result.expense_by_category)
                   /\ t \notin MembersOf(ret.result.income_by_category)

(***************************************************************************)
(* C9 - count, partition and excluded total of a summary.                  *)
(***************************************************************************)
\* C9: transaction_count is the number of selected transactions; each of
\* them is in exactly one of the income members, the expense members and
\* the excluded transfers; total_expenses and total_income are sums over
\* the expense and income members alone, and total_excluded is the sum of
\* the absolute amounts of the excluded transfers.
C9_CountAndPartition ==
    Summarised =>
        LET r == ret.result
            inc == MembersOf(r.income_by_category)
            exp == MembersOf(r.expense_by_category)
            exc == Range(r.excluded_cc_transfers)
            sel == StoredInRange(ret.year, ret.month)
        IN  /\ r.transaction_count = Cardinality(sel)
            /\ inc \cup exp \cup exc = sel
            /\ inc \cap exp = {}
            /\ inc \cap exc = {}
            /\ exp \cap exc = {}
            /\ Len(r.excluded_cc_transfers) = Cardinality(exc)
            /\ r.total_expenses = SumAbs(exp)
            /\ r.total_income = SumAbs(inc)
            /\ r.total_excluded = SumAbs(exc)

\* C9 witness: a summary with an excluded transfer of negative amount next
\* to a counted expense.
C9_Witness ==
    /\ Summarised
    /\ \E i \in DOMAIN ret.result.excluded_cc_transfers :
           ret.result.excluded_cc_transfers[i].amount < 0
    /\ ret.result.total_expenses > 0
    /\ ret.result.transaction_count >= 2

(***************************************************************************)
(* C10 - no exclusion without both sources.                                *)
(***************************************************************************)
\* C10: when the selected transactions all come from one source the summary
\* excludes nothing, and an excluded transfer is always bank-sourced.
C10_SingleSourceExcludesNothing ==
    Summarised =>
        LET r == ret.result
            sel == StoredInRange(ret.year, ret.month)
        IN  /\ (\A a, b \in sel : a.source = b.source)
                   => (r.excluded_cc_transfers = <<>> /\ r.total_excluded = 0)
            /\ \A i \in DOMAIN r.excluded_cc_transfers :
                   r.excluded_cc_transfers[i].source = "bank"

\* C10 witness: a month with bank transactions only, one of them described
\* by a card-issuer name, summarised with nothing excluded.
C10_Witness ==
    /\ Summarised
    /\ ret.year = 2026
    /\ ret.month = 3
    /\ T_MASTERCARD \in Range(Stored)
    /\ \A t \in StoredInRange(2026, 3) : t.source = "bank"
    /\ ret.result.excluded_cc_transfers = <<>>
    /\ T_MASTERCARD \in MembersOf(ret.result.expense_by_category)

(***************************************************************************)
(* C5 - an exact override decides the category.                            *)
(***************************************************************************)
\* The last call was categorize / add_override.
Categorized == ret.op = "categorize"

\* C5 as stated: when the trimmed description is a key of the override set,
\* mapped to k, categorize returns k.
C5_ExactOverrideAlwaysWins ==
    Categorized =>
        \A i \in DOMAIN overrides :
            overrides[i].pattern = strip(ret.description)
                => ret.result = overrides[i].category

\* C5 amended: when the trimmed description is a key of the override set,
\* mapped to a key k of the catalog, categorize returns k, whatever
\* keywords occur in the description and whatever other override patterns
\* are substrings of it or were inserted earlier.
C5_ExactCatalogOverrideWins ==
    Categorized =>
        \A i \in DOMAIN overrides :
            (/\ overrides[i].pattern = strip(ret.description)
             /\ \E c \in DOMAIN categories :
                    categories[c].key = overrides[i].category)
                => ret.result = overrides[i].category

\* C5 witness: " SUPERMARKET " was categorized as "other" by its exact
\* override although the override {"SUPER": "salary"} was inserted earlier
\* and matches it as a substring, and the keywords of "food" occur in it.
C5_Witness ==
    /\ Categorized
    /\ ret.description = SUPERMARKET_PADDED
    /\ overrides = <<[pattern |-> SUPER, category |-> "salary"],
                     [pattern |-> SUPERMARKET, category |-> OTHER_KEY]>>
    /\ ret.result = OTHER_KEY

(***************************************************************************)
(* C7 - add_override with an unknown category.                             *)
(***************************************************************************)
\* C7: add_override with a category_key that is neither a catalog key nor
\* the reserved key returns False and leaves the override set and the
\* overrides file as they were.
C7_UnknownCategoryRejected ==
    [][(/\ ret'.op = "add_override"
        /\ ret'.category_key \notin {"food", "salary", OTHER_KEY})
          => /\ ret'.result = FALSE
             /\ overrides' = overrides
             /\ overrides_file' = overrides_file]_vars

\* C7 witness: add_override with the key "bogus" returned False on a
\* non-empty override set.
C7_Witness ==
    /\ ret.op = "add_override"
    /\ ret.category_key = "bogus"
    /\ ret.result = FALSE
    /\ Len(overrides) = 2
    /\ overrides_file = overrides

(***************************************************************************)
(* C11 - what is persisted is what is in memory.                           *)
(***************************************************************************)
\* The two files hold the two in-memory lists.
Persisted ==
    /\ transactions_file = transactions
    /\ processed_files_file = processed_files

\* C11 as stated: after every store operation the persisted lists equal the
\* in-memory ones, and add_transactions writes the files only when it
\* added at least one transaction.
C11_SavedOnlyWhenAdded ==
    /\ Persisted
    /\ (Added /\ ret.saves > 0) => ret.result > 0

\* C11 amended: after every store operation the persisted lists equal the
\* in-memory ones, and add_transactions writes the files exactly when it
\* added at least one transaction or marked its source_file as processed
\* for the first time.
C11_PersistedAfterEveryOperation ==
    [][/\ transactions_file' = transactions'
       /\ processed_files_file' = processed_files'
       /\ ret'.op = "add_transactions" =>
              ((ret'.saves > 0) <=>
                   \/ ret'.result > 0
                   \/ /\ ret'.source_file # NonePath
                      /\ \A i \in DOMAIN processed_files :
                             processed_files[i]
                                 # ret'.source_file[Len(ret'.source_file)])
      ]_vars

\* C11 witness: an add_transactions call that added nothing to a non-empty
\* store wrote the files because it marked its source file.
C11_Witness ==
    /\ Added
    /\ ret.result = 0
    /\ ret.saves = 1
    /\ ret.source_file = BANK_FILE
    /\ transactions # <<>>
    /\ Persisted

(***************************************************************************)
(* C12 - processed files are known by base name, once.                     *)
(***************************************************************************)
\* The base name of a path: its last component (empty for no path).
BaseName(path) == IF path = <<>> THEN <<>> ELSE path[Len(path)]

\* C12: after add_transactions with a source_file, is_file_processed is
\* true of every path with the base name of source_file, whether or not a
\* transaction was added; marking a file that is marked changes nothing,
\* and the processed-file list holds no base name twice.
C12_ProcessedByBaseName ==
    [][/\ (ret'.op = "add_transactions" /\ ret'.source_file # NonePath) =>
              \A p \in FilePaths :
                  BaseName(p) = BaseName(ret'.source_file) =>
                      \E i \in DOMAIN processed_files' :
                          processed_files'[i] = BaseName(p)
       /\ ret'.op = "is_file_processed" =>
              (ret'.result <=>
                   \E i \in DOMAIN processed_files :
                       processed_files[i] = BaseName(ret'.file_path))
       /\ (/\ ret'.op \in {"add_transactions", "mark_file_processed"}
           /\ \E i \in DOMAIN processed_files :
                  processed_files[i]
                      = BaseName(IF ret'.op = "add_transactions"
                                 THEN ret'.source_file ELSE ret'.file_path))
              => processed_files' = processed_files
       /\ \A i, j \in DOMAIN processed_files' :
              i # j => processed_files'[i] # processed_files'[j]
      ]_vars

\* C12 witness: "bank.xlsx" was marked through the path stmts/bank.xlsx, and
\* an add_transactions call with the path bank.xlsx that added nothing left
\* the one entry in place.
C12_Witness ==
    /\ Added
    /\ ret.source_file = <<BANK_XLSX>>
    /\ ret.transactions # <<>>
    /\ ret.result = 0
    /\ ret.saves = 0
    /\ processed_files = <<BANK_XLSX>>

(***************************************************************************)
(* C13 - get_transactions: the filters and the order.                      *)
(***************************************************************************)
Queried == ret.op = "get_transactions"

\* t passes the filters of the last query, each one only when given; the
\* date bounds are inclusive.
Matches(t) ==
    /\ ret.start_date # NoneDate =>
           isoformat(ret.start_date) <= isoformat(t.date)
    /\ ret.end_date # NoneDate =>
           isoformat(t.date) <= isoformat(ret.end_date)
    /\ ret.category # None => t.category = ret.category
    /\ ret.source # None => t.source = ret.source

\* C13: get_transactions returns exactly the stored transactions that pass
\* every given filter, with inclusive date bounds, each one once, in
\* ascending order of date.
C13_FilteredAndSorted ==
    Queried =>
        /\ Range(ret.result) = {t \in Range(Stored) : Matches(t)}
        /\ Len(ret.result)
               = Cardinality({i \in DOMAIN Stored : Matches(Stored[i])})
        /\ \A i, j \in DOMAIN ret.result :
               i < j => isoformat(ret.result[i].date)
                            <= isoformat(ret.result[j].date)

\* C13 witness: the store holds April 1, December 31 and March 5 in that
\* order; the query from March 5 to April 1 returns March 5 then April 1.
C13_Witness ==
    /\ Queried
    /\ ret.start_date = D_MAR5
    /\ ret.end_date = D_APR1
    /\ Len(Stored) = 3
    /\ Stored[1].date = D_APR1
    /\ Stored[2].date = D_DEC31
    /\ Len(ret.result) = 2
    /\ ret.result[1].date = D_MAR5
    /\ ret.result[2].date = D_APR1

(***************************************************************************)
(* C17 - bank rows: which debit and credit values make a Transaction.      *)
(***************************************************************************)
Parsed == ret.op = "parse_file"

\* The last parse returned the Transactions of a bank sheet.
ParsedBank ==
    /\ Parsed
    /\ ~ret.result.raised
    /\ Route(ret.file_path, ret.sheet.rows) = "bank"

\* The rows below the header row of a bank sheet.
DataRows(df) ==
    LET headers == {i \in DOMAIN df : IsBankHeader(df[i])}
        first == CHOOSE i \in headers : \A j \in headers : i <= j
    IN  SubSeq(df, first + 1, Len(df))

\* What (date, amount, source) a data row is to yield: nothing without a
\* parsable date, else -debit for a debit that counts and then +credit for
\* a credit that counts.  A value counts when it is positive or, with
\* any_sign, when it is not zero.
Counts(x, any_sign) ==
    ~x.none /\ (IF any_sign THEN x.value # 0 ELSE x.value > 0)

YieldOfRow(row, any_sign) ==
    LET date == parse_date(Cell(row, 0))
        debit == parse_amount(Cell(row, 4))
        credit == parse_amount(Cell(row, 5))
    IN  IF date = NoneDate THEN <<>>
        ELSE (IF Counts(debit, any_sign)
              THEN <<[date |-> date, amount |-> -debit.value,
                      source |-> "bank"]>>
              ELSE <<>>)
             \o (IF Counts(credit, any_sign)
                 THEN <<[date |-> date, amount |-> credit.value,
                         source |-> "bank"]>>
                 ELSE <<>>)

YieldOfRows(rows, any_sign) ==
    Flatten([i \in DOMAIN rows |-> YieldOfRow(rows[i], any_sign)])

\* The (date, amount, source) of the parsed Transactions.
ParsedYield ==
    [i \in DOMAIN ret.result.transactions |->
         [date |-> ret.result.transactions[i].date,
          amount |-> ret.result.transactions[i].amount,
          source |-> ret.result.transactions[i].source]]

\* C17 as claimed: every non-zero debit or credit of a data row with a
\* parsable date yields its Transaction, a negative value included.
C17_AnyNonZeroValue ==
    ParsedBank => ParsedYield = YieldOfRows(DataRows(ret.sheet.rows), TRUE)

\* C17: for every bank data row with a parsable date, a positive debit
\* yields one Transaction with amount = -debit and source bank, a positive
\* credit yields one with amount = +credit, in that order, and a zero,
\* negative, missing or unparsable value yields none; so a row yields zero,
\* one or two Transactions.
C17_PositiveValues ==
    ParsedBank => ParsedYield = YieldOfRows(DataRows(ret.sheet.rows), FALSE)

\* C17 witness: below the header, a row with debit -50.00 and a row with
\* debit 15.00 and credit 0.20; the first yields nothing, the second -15.00
\* and +0.20.
C17_Witness ==
    /\ ParsedBank
    /\ ret.sheet.rows
           = <<BANK_HEADER_ROW, NEGATIVE_DEBIT_ROW, DEBIT_CREDIT_ROW>>
    /\ Len(ret.result.transactions) = 2
    /\ ret.result.transactions[1].amount = -3000
    /\ ret.result.transactions[2].amount = 40
    /\ ret.result.transactions[1].date = D_APR1

(***************************************************************************)
(* C16 - when parse_file fails.                                            *)
(***************************************************************************)
\* No content signature in the first rows, no bank heuristic in the name.
Unmatched ==
    LET text == first_rows_text(ret.sheet.rows)
        name == PathText(ret.file_path)
    IN  /\ ~Contains(HE_ACCOUNT_MOVEMENTS, text)
        /\ ~Contains(HE_BANK_YAHAV, text)
        /\ ~Contains(HE_TRANSACTION_DETAILS, text)
        /\ ~Contains(HE_ISRACARD, text)
        /\ ~Contains(HE_MASTERCARD, text)
        /\ ~Contains(HE_CURRENT_ACCOUNT, name)
        /\ ~Contains(BANK_WORD, lower(name))

\* The sheet went to the bank parser and has no header row.
BankWithoutHeader ==
    /\ ret.sheet.readable
    /\ Route(ret.file_path, ret.sheet.rows) = "bank"
    /\ \A i \in DOMAIN ret.sheet.rows : ~IsBankHeader(ret.sheet.rows[i])

\* C16 as claimed: parse_file fails on an unreadable file and on nothing
\* else; a readable bank sheet without a header row yields a list.
C16_OnlyReadErrorsFail ==
    Parsed => (ret.result.raised <=> ~ret.sheet.readable)

\* C16: parse_file fails exactly on an unreadable file and on a readable
\* sheet that is routed to the bank parser and has no header row; a
\* readable file that matches no signature and no bank name heuristic is
\* parsed by the credit-card parser and yields its list.
C16_FailsOnReadErrorOrMissingHeader ==
    Parsed =>
        /\ ret.result.raised <=> (~ret.sheet.readable \/ BankWithoutHeader)
        /\ (ret.sheet.readable /\ Unmatched) =>
               ret.result = parse_credit_card_statement(ret.file_path,
                                                        ret.sheet.rows)

\* C16 witness: stmts/bank.xlsx holds one debit row and no header row;
\* parse_file raises.
C16_Witness ==
    /\ Parsed
    /\ ret.file_path = BANK_FILE
    /\ ret.sheet.readable
    /\ ret.sheet.rows = <<DEBIT_ROW>>
    /\ ret.result.raised

(***************************************************************************)
(* C18 - what ends a transaction section of a card statement.              *)
(***************************************************************************)
\* The last parse returned the Transactions of a card sheet.
ParsedCard ==
    /\ Parsed
    /\ ~ret.result.raised
    /\ Route(ret.file_path, ret.sheet.rows) = "credit_card"

\* The first cell of the row is a totals marker or a whitespace-only str
\* or, with missing_ends, a missing cell.
IsEnder(row, missing_ends) ==
    LET first_val == Cell(row, 0)
    IN  IF isna(first_val) THEN missing_ends
        ELSE \/ Contains(HE_TOTAL, str(first_val))
             \/ \A i \in DOMAIN str(first_val) : IsSpace(str(first_val)[i])

\* Row k lies in a section: a header row above it, and no ending row
\* between that header and row k.
InSection(df, k, missing_ends) ==
    \E h \in 1..(k - 1) :
        /\ IsSectionHeader(df[h])
        /\ \A j \in (h + 1)..(k - 1) :
               IsSectionHeader(df[j]) \/ ~IsEnder(df[j], missing_ends)

\* The Transactions of the sheet when exactly the rows in a section that
\* are neither header rows nor ending rows nor rows with a missing first
\* cell are parsed.
SectionYield(df, file_path, missing_ends) ==
    Flatten([k \in DOMAIN df |->
                 IF /\ InSection(df, k, missing_ends)
                    /\ ~IsSectionHeader(df[k])
                    /\ ~isna(Cell(df[k], 0))
                    /\ ~IsEnder(df[k], missing_ends)
                 THEN CardRow(df[k], file_path, CardNumber(file_path, df))
                 ELSE <<>>])

\* C18 as claimed: a totals marker, a whitespace-only str and a missing
\* cell in the first column each end the section.
C18_MissingCellEndsSection ==
    ParsedCard =>
        ret.result.transactions
            = SectionYield(ret.sheet.rows, ret.file_path, TRUE)

\* C18: inside a transaction section, a row whose first cell is a totals
\* marker or a whitespace-only str ends the section, and the rows after it
\* are not parsed until a new section header row; a row whose first cell is
\* missing (NaN) is skipped and the section goes on.
C18_MarkerOrBlankEndsSection ==
    ParsedCard =>
        ret.result.transactions
            = SectionYield(ret.sheet.rows, ret.file_path, FALSE)

\* C18 witness: header, a charge, a totals row, a second charge; only the
\* first charge is parsed.
C18_Witness ==
    /\ ParsedCard
    /\ ret.sheet.rows
           = <<SECTION_HEADER_ROW, ILS_ROW, CARD_TOTALS_ROW, USD_ROW>>
    /\ Len(ret.result.transactions) = 1
    /\ ret.result.transactions[1].amount = -20000

(***************************************************************************)
(* C19 - the card number: file name or row text.                           *)
(***************************************************************************)
\* C19: when the file name holds a run of four digits, every Transaction of
\* the credit-card parser carries the first such run as card_number.
C19_FileNameDigitsWin ==
    (ParsedCard /\ FirstFourDigits(basename(ret.file_path)) # NoneText) =>
        \A i \in DOMAIN ret.result.transactions :
            ret.result.transactions[i].card_number
                = FirstFourDigits(basename(ret.file_path))

(***************************************************************************)
(* C20 - the currency code of a card Transaction.                          *)
(***************************************************************************)
\* The code of the currency symbol in a currency cell.
SymbolCode(currency) ==
    IF isna(currency) THEN "ILS"
    ELSE IF \E i \in DOMAIN str(currency) : str(currency)[i] = 36 THEN "USD"
    ELSE IF \E i \in DOMAIN str(currency) : str(currency)[i] = 8364
    THEN "EUR"
    ELSE "ILS"

\* C20: every Transaction of the credit-card parser carries the code of the
\* currency symbol of its row; so when all rows with a parsable date show
\* one symbol, every Transaction carries the code of that symbol.
C20_CurrencyOfRow ==
    ParsedCard =>
        \A code \in {"USD", "EUR", "ILS"} :
            (\A k \in DOMAIN ret.sheet.rows :
                 parse_date(Cell(ret.sheet.rows[k], 0)) # NoneDate =>
                     SymbolCode(Cell(ret.sheet.rows[k], 3)) = code)
            => \A i \in DOMAIN ret.result.transactions :
                   ret.result.transactions[i].currency = code

(***************************************************************************)
(* C14 - the import command and files already processed.                   *)
(***************************************************************************)
\* The step just taken handled one file of the import command.
FileHandled == ret'.op = "import_file"

\* The base name of that file was in the processed-file list before the
\* step.
WasProcessed ==
    \E i \in DOMAIN processed_files :
        processed_files[i] = BaseName(ret'.file_path)

\* C14: a file that exists and whose base name is in the processed-file
\* list is skipped without --force: it is not parsed, and the stored
\* transactions and the processed-file list (in memory and on disk) stay
\* as they are; with --force it is parsed and, when parsing succeeds, its
\* transactions go through add_transactions, which adds only those that
\* are not duplicates of stored ones.
C14_ProcessedFileSkippedUnlessForced ==
    [][(FileHandled /\ WasProcessed /\ exists(ret'.file_path)) =>
           /\ ~ret'.force =>
                  /\ ret'.outcome = "skipped"
                  /\ ret'.parsed = 0
                  /\ UNCHANGED storeVars
           /\ ret'.force =>
                  /\ ret'.outcome \in {"imported", "error"}
                  /\ ret'.outcome = "error" <=>
                         parse_file(ret'.file_path,
                                    Disk(ret'.file_path)).raised
                  /\ ret'.outcome = "imported" =>
                         /\ ret'.parsed
                                = Len(parse_file(ret'.file_path,
                                          Disk(ret'.file_path)).transactions)
                         /\ Len(transactions')
                                = Len(transactions) + ret'.added
                         /\ \A i, j \in DOMAIN transactions' :
                                i # j =>
                                    ~SameIdentity(
                                         from_dict(transactions'[i]),
                                         from_dict(transactions'[j]))
      ]_vars

\* C14 witness: stmts/bank.xlsx was imported; old/bank.xlsx, another file
\* with that base name, is skipped and the store holds the one record.
C14_Witness ==
    /\ ret.op = "import_file"
    /\ ret.file_path = BANK_FILE_OLD
    /\ ~ret.force
    /\ ret.outcome = "skipped"
    /\ processed_files = <<BANK_XLSX>>
    /\ Len(transactions) = 1

(***************************************************************************)
(* C15 - a failing file does not abort the import of the others.           *)
(***************************************************************************)
\* C15: in an import of several files, a file that cannot be read or
\* parsed adds no transaction and is not marked processed, what earlier
\* files added stays stored, and the loop goes on with the next file: each
\* step handles the file at the current position and moves one position
\* on, and the command ends only after the last file.
C15_FailureDoesNotAbort ==
    [][/\ FileHandled =>
              /\ cmd.name = "import"
              /\ ret'.file_path = cmd.files[cmd.pos]
              /\ cmd'.name = "import"
              /\ cmd'.pos = cmd.pos + 1
              /\ (/\ exists(ret'.file_path)
                  /\ ~(WasProcessed /\ ~ret'.force)
                  /\ parse_file(ret'.file_path,
                                Disk(ret'.file_path)).raised)
                     => ret'.outcome = "error"
              /\ ret'.outcome = "error" =>
                     /\ UNCHANGED storeVars
                     /\ cmd'.total_added = cmd.total_added
                     /\ cmd'.total_files = cmd.total_files
       /\ (cmd.name = "import" /\ cmd'.name = "idle") =>
              cmd.pos > Len(cmd.files)
      ]_vars

\* C15 witness: in the import of stmts/broken.xlsx and stmts/bank.xlsx the
\* first file failed and the second was imported; only the second is
\* marked processed.
C15_Witness ==
    /\ ret.op = "import_file"
    /\ cmd.files = <<BROKEN_FILE, BANK_FILE>>
    /\ ret.file_path = BANK_FILE
    /\ ret.outcome = "imported"
    /\ ret.added = 1
    /\ cmd.total_files = 1
    /\ processed_files = <<BANK_XLSX>>
    /\ Len(transactions) = 1

(***************************************************************************)
(* C21 - substring overrides, then keywords, then the reserved key.        *)
(***************************************************************************)
\* Override i matches the categorized description as a substring, in
\* either direction, letter case ignored.
SubstringMatch(i) ==
    \/ Contains(lower(overrides[i].pattern), lower(ret.description))
    \/ Contains(lower(ret.description), lower(overrides[i].pattern))

\* Keyword k of catalog entry c occurs in the categorized description.
KeywordHit(c, k) ==
    Contains(lower(categories[c].keywords[k]), lower(ret.description))

\* Catalog entry c is the first one, in catalog order, with a keyword hit.
FirstKeywordEntry(c) ==
    /\ \E k \in DOMAIN categories[c].keywords : KeywordHit(c, k)
    /\ \A d \in 1..(c - 1) :
           \A k \in DOMAIN categories[d].keywords : ~KeywordHit(d, k)

\* The answer of the keyword step and the default behind it.
KeywordAnswer(result) ==
    IF \E c \in DOMAIN categories : FirstKeywordEntry(c)
    THEN \E c \in DOMAIN categories :
             FirstKeywordEntry(c) /\ result = categories[c].key
    ELSE result = OTHER_KEY

\* C21 as stated: when the trimmed description is no key of the override
\* set, categorize returns the category of the first override, in insertion
\* order, that matches as a substring; without such an override the first
\* keyword hit decides, and without any hit the reserved key is returned.
C21_FirstSubstringOverrideWins ==
    (Categorized /\ IndexOf(overrides, strip(ret.description)) = 0) =>
        IF \E i \in DOMAIN overrides : SubstringMatch(i)
        THEN \E i \in DOMAIN overrides :
                 /\ SubstringMatch(i)
                 /\ \A j \in 1..(i - 1) : ~SubstringMatch(j)
                 /\ ret.result = overrides[i].category
        ELSE KeywordAnswer(ret.result)

\* Override i can decide: it matches as a substring and its category is a
\* key of the catalog.
Deciding(i) ==
    /\ SubstringMatch(i)
    /\ \E c \in DOMAIN categories : categories[c].key = overrides[i].category

\* C21 amended: when no override with a catalog category has the trimmed
\* description as its pattern, categorize returns the category of the first
\* override, in insertion order, that matches as a substring and whose
\* category is a key of the catalog, whatever keywords occur in the
\* description; without such an override the first keyword hit (catalog
\* order) decides, and without any hit the reserved key is returned.
C21_FirstCatalogSubstringOverrideWins ==
    (/\ Categorized
     /\ \A i \in DOMAIN overrides :
            overrides[i].pattern = strip(ret.description)
                => \A c \in DOMAIN categories :
                       categories[c].key # overrides[i].category) =>
        IF \E i \in DOMAIN overrides : Deciding(i)
        THEN \E i \in DOMAIN overrides :
                 /\ Deciding(i)
                 /\ \A j \in 1..(i - 1) : ~Deciding(j)
                 /\ ret.result = overrides[i].category
        ELSE KeywordAnswer(ret.result)

\* C21 witness: "SUPERMARKET" was categorized as "salary" by the second
\* override, {"SUPER": "salary"}, the first one not matching, although the
\* keywords of "food" occur in it.
C21_Witness ==
    /\ Categorized
    /\ ret.description = SUPERMARKET
    /\ overrides = <<[pattern |-> SALARY, category |-> "food"],
                     [pattern |-> SUPER, category |-> "salary"]>>
    /\ ret.result = "salary"

(***************************************************************************)
(* C26 - categorize is total and reads only.                               *)
(***************************************************************************)
\* k is a key of the catalog or the reserved key.
CatalogOrOther(k) ==
    \/ \E c \in DOMAIN categories : categories[c].key = k
    \/ k = OTHER_KEY

\* k is the category of an override of ovr and is no key of the catalog.
OffCatalogOverride(ovr, k) ==
    /\ \E i \in DOMAIN ovr : ovr[i].category = k
    /\ \A c \in DOMAIN categories : categories[c].key # k

\* The fields of a transaction other than its category.
OtherFields(t) ==
    <<t.date, t.description, t.amount, t.currency, t.source, t.source_file,
      t.card_number>>

\* C26: every call of categorize returns a key of the catalog or the
\* reserved key, never the category of an override that is absent from the
\* catalog, and leaves the override set and its file as they were; every
\* call of categorize_transactions does the same for each transaction of
\* the list, keeps the list's length and order, and changes no field of a
\* transaction but its category; neither call touches the store.
C26_TotalAndReadOnly ==
    [][/\ ret'.op = "categorize" =>
              /\ CatalogOrOther(ret'.result)
              /\ ~OffCatalogOverride(overrides, ret'.result)
              /\ UNCHANGED <<catVars, storeVars>>
       /\ ret'.op = "categorize_transactions" =>
              /\ Len(ret'.result) = Len(ret'.transactions)
              /\ \A i \in DOMAIN ret'.transactions :
                     /\ OtherFields(ret'.result[i])
                            = OtherFields(ret'.transactions[i])
                     /\ DOMAIN ret'.result[i] = DOMAIN ret'.transactions[i]
                     /\ CatalogOrOther(ret'.result[i].category)
                     /\ ~OffCatalogOverride(overrides,
                                            ret'.result[i].category)
              /\ UNCHANGED <<catVars, storeVars>>]_vars

\* C26 witness: with the override {"SUPERMARKET": "bogus"} loaded from the
\* file, the empty description was categorized as the reserved key.
C26_Witness ==
    /\ Categorized
    /\ ret.description = <<>>
    /\ overrides = <<[pattern |-> SUPERMARKET, category |-> "bogus"]>>
    /\ ret.result = OTHER_KEY

(***************************************************************************)
(* C24 - add_transactions only appends.                                    *)
(***************************************************************************)
\* The records behind position `from` of the stored list are records of
\* the batch, taken in the batch's order.
InBatchOrder(stored, from, batch) ==
    \E f \in [1..(Len(stored) - from) -> DOMAIN batch] :
        /\ \A j, k \in DOMAIN f : j < k => f[j] < f[k]
        /\ \A j \in DOMAIN f : stored[from + j] = to_dict(batch[f[j]])

\* C24: for every call of add_transactions the stored list before the call
\* is a prefix of the list after it, the records behind that prefix are
\* records of the batch in the batch's order, and the returned count is
\* the growth of the list's length.
C24_AppendOnly ==
    [][ret'.op = "add_transactions" =>
           /\ Len(transactions') >= Len(transactions)
           /\ SubSeq(transactions', 1, Len(transactions)) = transactions
           /\ InBatchOrder(transactions', Len(transactions),
                           ret'.transactions)
           /\ ret'.result = Len(transactions') - Len(transactions)]_vars

\* C24 witness: a batch of two was added to a store that held a duplicate
\* of its first transaction; its second transaction went to the end of the
\* list and the count returned is 1.
C24_Witness ==
    /\ Added
    /\ Len(ret.transactions) = 2
    /\ ret.result = 1
    /\ Len(transactions) >= 2
    /\ transactions[Len(transactions)] = to_dict(ret.transactions[2])
    /\ \E k \in 1..(Len(transactions) - 1) :
           SameIdentity(Stored[k], ret.transactions[1])

(***************************************************************************)
(* C25 - deduplication does not look at the category.                      *)
(***************************************************************************)
\* Stored record a and stored record b have the same dedup identity.
SameStoredIdentity(a, b) ==
    /\ a.date = b.date
    /\ a.description = b.description
    /\ a.amount - b.amount \in {-1, 0, 1}

\* C25: no step of an import or override command changes a record that is
\* already stored, its category included, and an import appends no record
\* with the date, description and amount (within 0.01) of a stored one,
\* whatever category the incoming transaction carries; so a record stored
\* under the reserved key stays under it through add_override and a forced
\* re-import of its file.
C25_DedupIgnoresCategory ==
    [][/\ Len(transactions') >= Len(transactions)
       /\ \A k \in DOMAIN transactions : transactions'[k] = transactions[k]
       /\ \A n \in (DOMAIN transactions') \ (DOMAIN transactions) :
              \A k \in DOMAIN transactions :
                  ~SameStoredIdentity(transactions[k], transactions'[n])]_vars

\* C25 witness: after the override {"MasterCard": "food"} a forced import
\* of stmts/bank_fees.xlsx parsed two transactions and added none, and the
\* two stored records with that description are still under the reserved
\* key.
C25_Witness ==
    /\ ret.op = "import_file"
    /\ ret.file_path = BANK_FEES_FILE
    /\ ret.force
    /\ ret.outcome = "imported"
    /\ ret.parsed = 2
    /\ ret.added = 0
    /\ overrides = <<[pattern |-> MASTERCARD, category |-> "food"]>>
    /\ Len(transactions) = 2
    /\ \A k \in DOMAIN transactions :
           /\ transactions[k].description = MASTERCARD
           /\ transactions[k].category = OTHER_KEY

(***************************************************************************)
(* C22 - the interactive re-categorization flow.                           *)
(***************************************************************************)
\* The flow stands at a prompt.
Prompting ==
    cmd.name = "interactive" /\ cmd.pos <= Len(cmd.uncategorized)

\* The answers that quit, that skip, and the category number an answer
\* gives (0 when it gives none of the catalog's numbers).
QuitAnswers == {<<113>>, <<81>>}
SkipAnswers == {<<115>>}
CategoryNumber(answer) ==
    IF answer = <<32, 49>> THEN 1
    ELSE IF answer = <<50>> THEN 2
    ELSE IF answer = <<51>> THEN 3
    ELSE 0

\* C22: a transaction shown at a prompt is in 'other'; an answer that is a
\* category number of the catalog gives the shown transaction that
\* category, leaves the other transactions alone and puts an override from
\* its exact description to that category into the override set and the
\* overrides file; the skip answer changes no transaction and no override
\* and moves to the next prompt; the quit answer changes no transaction and
\* no override and ends the prompts; and the end of the command stores
\* every transaction with the category it then has and leaves the
\* overrides as they are.
C22_InteractiveFlow ==
    [][/\ (cmd'.name = "interactive"
           /\ cmd'.pos <= Len(cmd'.uncategorized)) =>
              cmd'.transactions[cmd'.uncategorized[cmd'.pos]].category
                  = OTHER_KEY
       /\ Prompting =>
              LET i == cmd.uncategorized[cmd.pos]
                  n == CategoryNumber(ret'.answer)
              IN  /\ n # 0 =>
                         /\ cmd'.transactions[i].category
                                = categories[n].key
                         /\ \A k \in DOMAIN cmd.transactions :
                                k # i => cmd'.transactions[k]
                                             = cmd.transactions[k]
                         /\ \E j \in DOMAIN overrides_file' :
                                overrides_file'[j]
                                    = [pattern |->
                                           cmd.transactions[i].description,
                                       category |-> categories[n].key]
                         /\ overrides' = overrides_file'
                         /\ cmd'.pos = cmd.pos + 1
                  /\ ret'.answer \in SkipAnswers =>
                         /\ cmd'.transactions = cmd.transactions
                         /\ UNCHANGED catVars
                         /\ cmd'.pos = cmd.pos + 1
                  /\ ret'.answer \in QuitAnswers =>
                         /\ cmd'.transactions = cmd.transactions
                         /\ UNCHANGED catVars
                         /\ cmd'.name = "interactive"
                         /\ cmd'.pos > Len(cmd'.uncategorized)
       /\ (cmd.name = "interactive" /\ cmd'.name = "idle") =>
              /\ transactions'
                     = [k \in DOMAIN cmd.transactions |->
                            to_dict(cmd.transactions[k])]
              /\ transactions_file' = transactions'
              /\ UNCHANGED catVars]_vars

\* C22 witness: of two transactions shown, the first was given "food" at
\* its prompt and the flow was quit at the second, which is still in
\* 'other'; the override of the first is in the overrides file.
C22_Witness ==
    /\ ret.op = "prompt"
    /\ ret.answer \in QuitAnswers
    /\ cmd.name = "interactive"
    /\ Len(cmd.uncategorized) = 2
    /\ ret.index = cmd.uncategorized[2]
    /\ cmd.transactions[cmd.uncategorized[1]].category = "food"
    /\ cmd.transactions[cmd.uncategorized[2]].category = OTHER_KEY
    /\ overrides_file = <<[pattern |-> MASTERCARD, category |-> "food"]>>

(***************************************************************************)
(* C23 - the processed-file set through later commands.                    *)
(***************************************************************************)
\* C23: no step of an import command or of the interactive command takes a
\* file name out of the processed-file record, so is_file_processed stays
\* true for a file once it was marked.
C23_ProcessedFilesSurvive ==
    [][\A k \in DOMAIN processed_files_file :
           \E j \in DOMAIN processed_files_file' :
               processed_files_file'[j] = processed_files_file[k]]_vars

====
